---- MODULE Spec2Model ----
(***************************************************************************)
(* Model of the BrainSAIT web enrichment crawler                           *)
(* (src/src/brainsait_ai/enrichment/web_crawler.py) and of the HTTP helper *)
(* it fetches pages with (src/src/brainsait_ai/utils/http.py).             *)
(*                                                                         *)
(* Text is modelled as a sequence of tokens.  The delimiters of a URL      *)
(* (":", "/", "?", "#", "[", "]") are tokens of their own; every other     *)
(* token stands for a run of letters (a scheme word, a host label, a path  *)
(* segment).  The urllib.parse functions the crawler calls are modelled    *)
(* on such sequences by what they do to the text.                          *)
(***************************************************************************)
EXTENDS Integers, Sequences, FiniteSets, TLC

\* ------------------------------------------------------------------ text

\* Python's None, as returned by _normalize_url and _fetch_html.
None == <<"<None>">>

Delims == {":", "/", "?", "#", "[", "]"}

\* A token that may occur in a scheme (urllib.parse.scheme_chars).
IsSchemeTok(t) == t \notin Delims

\* str.lower on one token: the only upper-case tokens of the model.
LowerTok(t) ==
    IF t = "HTTPS" THEN "https" ELSE IF t = "HTTP" THEN "http"
    ELSE IF t = "EN" THEN "en" ELSE IF t = "Contact" THEN "contact"
    ELSE IF t = "About" THEN "about" ELSE IF t = "T" THEN "t" ELSE t

Lower(s) == [k \in 1..Len(s) |-> LowerTok(s[k])]

\* str.find for one token, 1-based; 0 when absent.
Find(s, t) ==
    IF \E k \in 1..Len(s) : s[k] = t
    THEN CHOOSE k \in 1..Len(s) : s[k] = t /\ \A m \in 1..(k - 1) : s[m] # t
    ELSE 0

\* First position at or after `from` holding one of `ts`; Len(s) + 1 when none.
FindAny(s, ts, from) ==
    IF \E k \in from..Len(s) : s[k] \in ts
    THEN CHOOSE k \in from..Len(s) : s[k] \in ts /\ \A m \in from..(k - 1) : s[m] \notin ts
    ELSE Len(s) + 1

From(s, i) == SubSeq(s, i, Len(s))

\* s[:n]
Prefix(s, n) == SubSeq(s, 1, IF Len(s) < n THEN Len(s) ELSE n)

RECURSIVE Split(_, _)
\* str.split(sep)
Split(s, sep) ==
    IF Find(s, sep) = 0 THEN <<s>>
    ELSE <<SubSeq(s, 1, Find(s, sep) - 1)>> \o Split(From(s, Find(s, sep) + 1), sep)

RECURSIVE Join(_, _)
\* sep.join(parts)
Join(parts, sep) ==
    IF Len(parts) = 0 THEN <<>>
    ELSE IF Len(parts) = 1 THEN parts[1]
    ELSE parts[1] \o <<sep>> \o Join(Tail(parts), sep)

RECURSIVE RStrip(_, _)
\* str.rstrip(t): every trailing t is removed
RStrip(s, t) ==
    IF Len(s) > 0 /\ s[Len(s)] = t THEN RStrip(SubSeq(s, 1, Len(s) - 1), t) ELSE s

\* filter(None, parts): the empty strings are dropped
RECURSIVE FilterEmpty(_)
FilterEmpty(parts) ==
    IF Len(parts) = 0 THEN <<>>
    ELSE (IF Head(parts) = <<>> THEN <<>> ELSE <<Head(parts)>>) \o FilterEmpty(Tail(parts))

\* ---------------------------------------------------------- urllib.parse

\* urlsplit raises ValueError("Invalid IPv6 URL") for a netloc with one
\* bracket and not the other, and for a bracketed host that is no IP
\* address; no token of the model spells an IP address.
BadNetloc(netloc) == \E k \in 1..Len(netloc) : netloc[k] \in {"[", "]"}

\* urlsplit, first step: with i the place of the first ":", the text before
\* it is the scheme when it is not empty and made of scheme characters.
SplitScheme(url, i) ==
    IF i > 1 /\ \A k \in 1..(i - 1) : IsSchemeTok(url[k])
    THEN [scheme |-> Lower(SubSeq(url, 1, i - 1)), rest |-> From(url, i + 1)]
    ELSE [scheme |-> <<>>, rest |-> url]

\* urlsplit, second step: after "//" the netloc runs up to netEnd, the
\* first of "/", "?", "#".
SplitNetloc(rest, netEnd) ==
    IF Len(rest) >= 2 /\ rest[1] = "/" /\ rest[2] = "/"
    THEN [netloc |-> SubSeq(rest, 3, netEnd - 1), rest |-> From(rest, netEnd)]
    ELSE [netloc |-> <<>>, rest |-> rest]

\* str.split(sep, 1), with i the place of sep in s (0: absent)
SplitOnce(s, i) ==
    IF i > 0 THEN [head |-> SubSeq(s, 1, i - 1), tail |-> From(s, i + 1)]
    ELSE [head |-> s, tail |-> <<>>]

\* The SplitResult; error is TRUE where Python raises ValueError.
SplitResult(s, n, f, q) ==
    [scheme |-> s.scheme, netloc |-> n.netloc, path |-> q.head, query |-> q.tail,
     fragment |-> f.tail, error |-> BadNetloc(n.netloc)]

SplitQuery(s, n, f) == SplitResult(s, n, f, SplitOnce(f.head, Find(f.head, "?")))

SplitFragment(s, n) == SplitQuery(s, n, SplitOnce(n.rest, Find(n.rest, "#")))

SplitAuthority(s) == SplitFragment(s, SplitNetloc(s.rest, FindAny(s.rest, {"/", "?", "#"}, 3)))

\* urllib.parse.urlsplit
urlsplit(url) == SplitAuthority(SplitScheme(url, Find(url, ":")))

UsesNetloc == {<<"http">>, <<"https">>, <<"ftp">>}

UsesRelative == {<<>>, <<"http">>, <<"https">>, <<"ftp">>}

\* urlunsplit: url = '//' + netloc + url, with a "/" put before a relative path
WithNetloc(scheme, netloc, path) ==
    IF netloc # <<>> \/ (scheme \in UsesNetloc /\ Prefix(path, 2) # <<"/", "/">>)
    THEN <<"/", "/">> \o netloc
         \o (IF path # <<>> /\ path[1] # "/" THEN <<"/">> ELSE <<>>) \o path
    ELSE path

\* urlunsplit: url = scheme + ':' + url
WithScheme(scheme, u) == IF scheme # <<>> THEN scheme \o <<":">> \o u ELSE u

\* urlunsplit: url = url + sep + part, for the query and the fragment
WithPart(u, sep, part) == IF part # <<>> THEN u \o <<sep>> \o part ELSE u

\* urllib.parse.urlunsplit
urlunsplit(scheme, netloc, path, query, fragment) ==
    WithPart(WithPart(WithScheme(scheme, WithNetloc(scheme, netloc, path)), "?", query),
             "#", fragment)

\* urljoin: base_parts = bpath.split('/'), less its last part unless empty
BaseParts(parts) ==
    IF parts[Len(parts)] # <<>> THEN SubSeq(parts, 1, Len(parts) - 1) ELSE parts

\* urljoin: segments[1:-1] = filter(None, segments[1:-1])
FilterInner(segments) ==
    IF Len(segments) <= 2 THEN segments
    ELSE <<segments[1]>> \o FilterEmpty(SubSeq(segments, 2, Len(segments) - 1))
         \o <<segments[Len(segments)]>>

\* '/'.join(resolved_path) or '/'
OrSlash(resolved) == IF resolved = <<>> THEN <<"/">> ELSE resolved

\* The path urljoin resolves for a reference with a non-empty path.  The
\* model has no "." or ".." segment, so the dot-segment loop keeps every
\* segment.
ResolvePath(bpath, path) ==
    OrSlash(Join(IF path[1] = "/" THEN Split(path, "/")
                 ELSE FilterInner(BaseParts(Split(bpath, "/")) \o Split(path, "/")),
                 "/"))

\* What urljoin raises where urlsplit of the reference raises.
ValueError == <<"<ValueError>">>

\* urljoin once base is split into b, url into u0 and the reference's
\* scheme defaulted to the base's.
JoinParts(base, url, b, u0, scheme) ==
    IF base = <<>> THEN url
    ELSE IF url = <<>> THEN base
    ELSE IF u0.error THEN ValueError
    ELSE IF scheme # b.scheme \/ scheme \notin UsesRelative THEN url
    ELSE IF scheme \in UsesNetloc /\ u0.netloc # <<>>
         THEN urlunsplit(scheme, u0.netloc, u0.path, u0.query, u0.fragment)
    ELSE IF u0.path = <<>>
         THEN urlunsplit(scheme, b.netloc, b.path,
                         IF u0.query = <<>> THEN b.query ELSE u0.query, u0.fragment)
    ELSE urlunsplit(scheme, b.netloc, ResolvePath(b.path, u0.path), u0.query, u0.fragment)

JoinSplit(base, url, b, u0) ==
    JoinParts(base, url, b, u0, IF u0.scheme = <<>> THEN b.scheme ELSE u0.scheme)

\* urllib.parse.urljoin(base, url); base is a URL urlsplit accepts.
urljoin(base, url) == JoinSplit(base, url, urlsplit(base), urlsplit(url))

\* ------------------------------------------------------------ WebCrawler

\* Mutant of NormalizeParts: the scheme is not checked.
NormalizeParts_AnyScheme(parsed) ==
    IF parsed.error THEN None
    ELSE IF parsed.netloc = <<>> THEN None
    ELSE RStrip(urlunsplit(parsed.scheme, parsed.netloc,
                           IF parsed.path = <<>> THEN <<"/">> ELSE parsed.path, <<>>, <<>>),
                "/")
         \o (IF parsed.path # <<>> THEN <<>> ELSE <<"/">>)

\* _normalize_url once the URL is split.
NormalizeParts(parsed) ==
    IF parsed.error THEN None
    ELSE IF parsed.scheme \notin {<<"http">>, <<"https">>} \/ parsed.netloc = <<>> THEN None
    ELSE RStrip(urlunsplit(parsed.scheme, parsed.netloc,
                           IF parsed.path = <<>> THEN <<"/">> ELSE parsed.path, <<>>, <<>>),
                "/")
         \o (IF parsed.path # <<>> THEN <<>> ELSE <<"/">>)

\* WebCrawler._normalize_url
_normalize_url(url) == NormalizeParts(urlsplit(url))

DomainOf(parsed) == urlunsplit(parsed.scheme, parsed.netloc, <<>>, <<>>, <<>>)

\* WebCrawler._domain_key
_domain_key(url) == DomainOf(urlsplit(url))

\* Mutant of IsInternalLink: the netloc is not compared.
IsInternalLink_AnyHost(parsed_parts, root_parts) ==
    parsed_parts.scheme \in {<<"http">>, <<"https">>}

\* The test of _extract_internal_links on one resolved link: same netloc
\* as the root, and an http(s) scheme.
IsInternalLink(parsed_parts, root_parts) ==
    /\ parsed_parts.netloc = root_parts.netloc
    /\ parsed_parts.scheme \in {<<"http">>, <<"https">>}

\* _extract_internal_links on one href resolved to `parsed`: the links with
\* its normal form added when it is internal and valid.
AddLink(root_url, parsed, normalized, links) ==
    IF IsInternalLink(urlsplit(parsed), urlsplit(root_url)) /\ normalized # None
    THEN links \cup {normalized}
    ELSE links

\* The loop of _extract_internal_links over the hrefs of a page: links is
\* the set built so far; raised is TRUE once urljoin raised ValueError,
\* which nothing in the crawler catches.
RECURSIVE ExtractFrom(_, _, _)
ExtractStep(root_url, hrefs, links, parsed) ==
    IF parsed = ValueError THEN [raised |-> TRUE, links |-> links]
    ELSE ExtractFrom(root_url, Tail(hrefs),
                     AddLink(root_url, parsed, _normalize_url(parsed), links))

ExtractFrom(root_url, hrefs, links) ==
    IF Len(hrefs) = 0 THEN [raised |-> FALSE, links |-> links]
    ELSE ExtractStep(root_url, hrefs, links, urljoin(root_url, Head(hrefs)))

\* WebCrawler._extract_internal_links; hrefs are the href attributes of the
\* page's anchors in document order.
_extract_internal_links(root_url, hrefs) == ExtractFrom(root_url, hrefs, {})

\* ------------------------------------------------------ RobotFileParser

\* RobotFileParser(): nothing read yet.
NewParser == [disallow_all |-> FALSE, allow_all |-> FALSE, last_checked |-> 0, rules |-> {}]

\* The Disallow lines for user agent * a served robots.txt may hold.
RuleSets == {{}, {<<"/", "a">>}, {<<"/">>}}

\* What fetching robots.txt may come to.
RobotsOutcomes ==
    [kind : {"ok"}, rules : RuleSets]
    \cup [kind : {"http_404", "http_403", "http_500", "network_error", "timeout"}, rules : {{}}]

\* The parser _get_robot_parser stores after parser.read() met `outcome`:
\* read() parses a body that arrived, turns 401/403 into disallow_all and
\* other 4xx into allow_all, and raises on anything that is no HTTPError;
\* the crawler swallows that exception and keeps the parser as it was.
ReadRobots(outcome) ==
    IF outcome.kind = "ok" THEN [NewParser EXCEPT !.last_checked = 1, !.rules = outcome.rules]
    ELSE IF outcome.kind = "http_403" THEN [NewParser EXCEPT !.disallow_all = TRUE]
    ELSE IF outcome.kind = "http_404" THEN [NewParser EXCEPT !.allow_all = TRUE]
    ELSE NewParser

\* RobotFileParser.can_fetch("*", url)
Allowance(parser, path) ==
    IF parser.disallow_all THEN FALSE
    ELSE IF parser.allow_all THEN TRUE
    ELSE IF parser.last_checked = 0 THEN FALSE
    ELSE \A rule \in parser.rules : Prefix(path, Len(rule)) # rule

can_fetch(parser, url) == Allowance(parser, OrSlash(urlsplit(url).path))

\* Mutant of _is_allowed: the parser is not asked.
_is_allowed_Always(parser, url) == TRUE

\* WebCrawler._is_allowed, given the parser _get_robot_parser returned
_is_allowed(parser, url) == can_fetch(parser, url)

\* ------------------------------------------------------------- http.get

\* stop_after_attempt(3)
MaxAttempts == 3

\* What one session.get may come to: a response below 400, a response of
\* 400 or more (get raises HttpError), or a requests.RequestException.
AttemptOutcomes == {"ok", "HttpError", "RequestException"}

\* Mutant of RetryIf: only transport errors are retried.
RetryIf_TransportOnly(exc) == exc = "RequestException"

\* retry=retry_if_exception_type((requests.RequestException, HttpError))
RetryIf(exc) == exc \in {"RequestException", "HttpError"}

\* Mutant of StopAfterAttempt: one attempt more.
StopAfterAttempt_Four(attempt_number) == attempt_number >= MaxAttempts + 1

\* stop=stop_after_attempt(3)
StopAfterAttempt(attempt_number) == attempt_number >= MaxAttempts

\* ---------------------------------------------------------------- bounds

\* max_pages of the crawler under test is drawn from 0..MaxPagesBound.
MaxPagesBound == 2

\* Number of crawl calls made on the one crawler instance.
MaxCrawls == 2

\* The URLs crawl is called with: the root without and with its slash, a
\* page with upper-case scheme, slash and query, and three invalid seeds
\* (scheme, missing host, malformed host).
Seeds ==
    { <<"https", ":", "/", "/", "h">>,
      <<"https", ":", "/", "/", "h", "/">>,
      <<"HTTPS", ":", "/", "/", "h", "/", "a", "/", "?", "q">>,
      <<"ftp", ":", "/", "/", "h", "/", "a">>,
      <<"https", ":", "/", "a">>,
      <<"http", ":", "/", "/", "[">> }

\* The pages a site may serve, each as the hrefs of its anchors: no link;
\* relative and duplicate links; the root, other hosts, another scheme;
\* three internal links; a malformed href.
Pages ==
    { <<>>,
      << <<"/", "a">>, <<"b">>, <<"/", "a", "/", "?", "q", "#", "f">> >>,
      << <<"/">>, <<"https", ":", "/", "/", "g", "/", "a">>, <<"/", "/", "g", "/", "b">>,
         <<"ftp", ":", "/", "/", "h", "/", "a">>, <<"http", ":", "/", "/", "h", "/", "a">> >>,
      << <<"/", "a">>, <<"/", "b">>, <<"/", "c">> >>,
      << <<"/", "b">>, <<"/", "/", "[">> >> }

\* ----------------------------------------------------------------- state

VARIABLES
    max_pages,        \* self._max_pages
    robots_cache,     \* self._robots_cache: domain key -> parser
    robots_read,      \* history: domain key -> what fetching its robots.txt came to
    crawls,           \* history: number of crawl calls so far
    pc,               \* "idle", "loop", "fetch", "fetched", "done", "raised"
    url,              \* crawl's argument
    normalized_root,
    to_visit,
    seen,
    snapshots,
    target,
    attempts,         \* tenacity's attempt number within the current http get
    response,         \* what the latest attempt came to
    html,             \* what _fetch_html returned
    returned,         \* the list crawl returned
    fetched,          \* history: the URLs a page GET was issued for in this crawl
    failed,           \* history: the URLs _fetch_html returned None for in this crawl
    norm,             \* the calls of _normalize_url made on their own (NormSpec)
    scorer,           \* a call of DigitalMaturityScorer.score (ScoreSpec)
    builder,          \* a call of build_feature_vector (FeatureSpec)
    pipeline,         \* a run of _analyze_businesses (AnalyzeSpec)
    generator,        \* a call of the offer generator (OfferSpec)
    places,           \* a run of _discover_businesses (PlacesSpec)
    slug,             \* a call of cli._slugify (SlugSpec)
    twin,             \* two crawls of one site, side by side (TwinSpec)
    race              \* two robots lookups on one crawler at once (RaceSpec)

vars == <<max_pages, robots_cache, robots_read, crawls, pc, url, normalized_root, to_visit,
          seen, snapshots, target, attempts, response, html, returned, fetched, failed, norm,
          scorer, builder, pipeline, generator, places, slug, twin, race>>

crawl_vars == <<max_pages, robots_cache, robots_read, crawls, pc, url, normalized_root,
                to_visit, seen, snapshots, target, attempts, response, html, returned,
                fetched, failed>>

\* The state of the parts of the program a crawl does not touch.
other_vars == <<norm, scorer, builder, pipeline, generator, places, slug, twin, race>>

instance_vars == <<max_pages, robots_cache, robots_read>>

get_vars == <<attempts, response, html>>

EmptyCache == [d \in {} |-> NewParser]

\* No call of _normalize_url on its own is under way.
NormOff == [pc |-> "off", url |-> None, out |-> None, again |-> None,
            other |-> None, other_out |-> None]

\* A crawler as constructed: WebCrawler(max_pages=...).
CrawlInit ==
    /\ max_pages \in 0..MaxPagesBound
    /\ robots_cache = EmptyCache
    /\ robots_read = EmptyCache
    /\ crawls = 0
    /\ pc = "idle"
    /\ url = None
    /\ normalized_root = None
    /\ to_visit = <<>>
    /\ seen = {}
    /\ snapshots = <<>>
    /\ target = None
    /\ attempts = 0
    /\ response = "none"
    /\ html = None
    /\ returned = <<>>
    /\ fetched = {}
    /\ failed = {}

\* A part of the program that is not in use.
Off == [pc |-> "off"]

Init ==
    /\ CrawlInit
    /\ slug = Off /\ twin = Off /\ race = Off
    /\ norm = NormOff
    /\ scorer = Off
    /\ builder = Off
    /\ pipeline = Off
    /\ generator = Off
    /\ places = Off

\* ------------------------------------------------------- WebCrawler.crawl

\* crawl(u), up to the loop: an invalid seed returns [] at once.
Crawl(u) ==
    /\ pc \in {"idle", "done", "raised"}
    /\ crawls < MaxCrawls
    /\ crawls' = crawls + 1
    /\ url' = u
    /\ normalized_root' = _normalize_url(u)
    /\ to_visit' = IF normalized_root' = None THEN <<>> ELSE <<normalized_root'>>
    /\ pc' = IF normalized_root' = None THEN "done" ELSE "loop"
    /\ seen' = {}
    /\ snapshots' = <<>>
    /\ returned' = <<>>
    /\ target' = None
    /\ attempts' = 0
    /\ response' = "none"
    /\ html' = None
    /\ fetched' = {}
    /\ failed' = {}
    /\ UNCHANGED <<instance_vars, other_vars>>

\* Mutant of LoopCond: the bound is off by one.
LoopCond_OffByOne(frontier, collected, limit) == frontier # <<>> /\ Len(collected) <= limit

\* while to_visit and len(snapshots) < self._max_pages
LoopCond(frontier, collected, limit) == frontier # <<>> /\ Len(collected) < limit

\* The loop ends: return snapshots.
LoopExit ==
    /\ pc = "loop"
    /\ ~LoopCond(to_visit, snapshots, max_pages)
    /\ pc' = "done"
    /\ returned' = snapshots
    /\ UNCHANGED <<other_vars, instance_vars, crawls, url, normalized_root, to_visit, seen,
                   snapshots, target, get_vars, fetched, failed>>

\* What _get_robot_parser may meet for a domain: its cached parser, or any
\* outcome of fetching robots.txt.
RobotsChoices(domain) ==
    IF domain \in DOMAIN robots_cache
    THEN {[kind |-> "cached", rules |-> {}]}
    ELSE RobotsOutcomes

\* The cache is not consulted: a new parser is made on every lookup.
_get_robot_parser_Fresh(domain, outcome) == ReadRobots(outcome)

\* The parser _get_robot_parser returns for a domain: the cached one, or a
\* new one that read robots.txt with `outcome`.
_get_robot_parser(domain, outcome) ==
    IF outcome.kind = "cached" THEN robots_cache[domain] ELSE ReadRobots(outcome)

\* Mutant of Store: the dict is replaced by one holding the new entry alone.
Store_Only(cache, domain, value) == [d \in {domain} |-> value]

\* self._robots_cache[domain] = parser
Store(cache, domain, value) ==
    [d \in DOMAIN cache \cup {domain} |-> IF d = domain THEN value ELSE cache[d]]

\* One pass of the loop up to the fetch: pop the front, skip it when seen
\* or when robots disallows it, else mark it seen and go fetch it.
Visit ==
    /\ pc = "loop"
    /\ LoopCond(to_visit, snapshots, max_pages)
    /\ target' = Head(to_visit)
    /\ to_visit' = Tail(to_visit)
    /\ attempts' = 0
    /\ response' = "none"
    /\ html' = None
    /\ IF target' \in seen
       THEN /\ pc' = "loop"
            /\ UNCHANGED <<robots_cache, robots_read, seen>>
       ELSE \E domain \in {_domain_key(target')} :
            \E outcome \in RobotsChoices(domain) :
            \E parser \in {_get_robot_parser(domain, outcome)} :
              /\ robots_cache' = Store(robots_cache, domain, parser)
              /\ robots_read' = IF outcome.kind = "cached" THEN robots_read
                                ELSE Store(robots_read, domain, outcome)
              /\ IF _is_allowed(parser, target')
                 THEN seen' = seen \cup {target'} /\ pc' = "fetch"
                 ELSE seen' = seen /\ pc' = "loop"
    /\ UNCHANGED <<other_vars, max_pages, crawls, url, normalized_root, snapshots, returned,
                   fetched, failed>>

\* One attempt of http get answers below 400: _fetch_html returns the text.
GetOk ==
    /\ pc = "fetch"
    /\ \E body \in Pages : html' = body
    /\ attempts' = attempts + 1
    /\ response' = "ok"
    /\ fetched' = fetched \cup {target}
    /\ pc' = "fetched"
    /\ UNCHANGED <<other_vars, instance_vars, crawls, url, normalized_root, to_visit, seen,
                   snapshots, target, returned, failed>>

\* One attempt of http get raises: tenacity tries again while the exception
\* is one it retries and the attempts are not used up; else the exception
\* leaves get and _fetch_html turns it into None.
GetFail ==
    /\ pc = "fetch"
    /\ \E exc \in AttemptOutcomes \ {"ok"} :
          /\ response' = exc
          /\ pc' = IF RetryIf(exc) /\ ~StopAfterAttempt(attempts + 1) THEN "fetch" ELSE "fetched"
    /\ attempts' = attempts + 1
    /\ html' = None
    /\ fetched' = fetched \cup {target}
    /\ UNCHANGED <<other_vars, instance_vars, crawls, url, normalized_root, to_visit, seen,
                   snapshots, target, returned, failed>>

\* Mutant of FailedFetch: a failed fetch ends the crawl.
FailedFetch_Abort ==
    /\ pc = "fetched"
    /\ html = None
    /\ pc' = "done"
    /\ returned' = snapshots
    /\ failed' = failed \cup {target}
    /\ UNCHANGED <<other_vars, instance_vars, crawls, url, normalized_root, to_visit, seen,
                   snapshots, target, get_vars, fetched>>

\* if html is None: continue
FailedFetch ==
    /\ pc = "fetched"
    /\ html = None
    /\ pc' = "loop"
    /\ failed' = failed \cup {target}
    /\ UNCHANGED <<other_vars, instance_vars, crawls, url, normalized_root, to_visit, seen,
                   snapshots, target, get_vars, returned, fetched>>

\* The orders a set may be iterated in.
Orders(S) ==
    {order \in [1..Cardinality(S) -> S] :
        \A i, j \in 1..Cardinality(S) : i # j => order[i] # order[j]}

\* Mutant of Enqueue: links are appended without looking at seen or at the
\* frontier.
Enqueue_Unchecked(frontier, links, visited, cap) ==
    IF Len(frontier) < cap THEN frontier \o links ELSE frontier

\* Every new link is appended, however long the frontier is.
Enqueue_NoCap(frontier, links, visited, cap) ==
    frontier \o SelectSeq(links, LAMBDA link :
                              /\ link \notin visited
                              /\ \A k \in 1..Len(frontier) : frontier[k] # link)

\* for link in links: append it unless seen, queued, or the frontier is full
RECURSIVE Enqueue(_, _, _, _)
Enqueue(frontier, links, visited, cap) ==
    IF Len(links) = 0 THEN frontier
    ELSE IF Head(links) \notin visited
            /\ (\A k \in 1..Len(frontier) : frontier[k] # Head(links))
            /\ Len(frontier) < cap
         THEN Enqueue(Append(frontier, Head(links)), Tail(links), visited, cap)
         ELSE Enqueue(frontier, Tail(links), visited, cap)

\* The rest of the loop body for a fetched page: append its snapshot, then
\* enqueue its internal links in the order the set of links iterates.
ProcessPage ==
    /\ pc = "fetched"
    /\ html # None
    /\ snapshots' = Append(snapshots, [url |-> target])
    /\ \E extracted \in {_extract_internal_links(normalized_root, html)} :
          IF extracted.raised
          THEN pc' = "raised" /\ to_visit' = to_visit
          ELSE /\ pc' = "loop"
               /\ \E order \in Orders(extracted.links) :
                     to_visit' = Enqueue(to_visit, order, seen, max_pages * 2)
    /\ attempts' = 0
    /\ response' = "none"
    /\ html' = None
    /\ UNCHANGED <<other_vars, instance_vars, crawls, url, normalized_root, seen, target,
                   returned, fetched, failed>>

Next ==
    \/ \E u \in Seeds : Crawl(u)
    \/ LoopExit
    \/ Visit
    \/ GetOk
    \/ GetFail
    \/ FailedFetch
    \/ ProcessPage

Spec == Init /\ [][Next]_vars

\* ------------------------------------------- _normalize_url on its own

\* The texts _normalize_url is applied to: every scheme part, authority,
\* path, query and fragment below, put together.
RawSchemes == {<<>>, <<"http", ":">>, <<"https", ":">>, <<"HTTPS", ":">>, <<"ftp", ":">>}

RawAuthorities == {<<>>, <<"/", "/", "h">>, <<"/", "/", "[">>}

RawPaths == {<<>>, <<"/">>, <<"/", "a">>, <<"/", "a", "/">>, <<"/", "a", "/", "b">>, <<"/", "/">>}

RawQueries == {<<>>, <<"?", "q">>}

RawFragments == {<<>>, <<"#", "f">>}

RawURLs ==
    {s \o a \o p \o q \o f :
        s \in RawSchemes, a \in RawAuthorities, p \in RawPaths, q \in RawQueries,
        f \in RawFragments}

\* A URL _normalize_url accepts: urlsplit succeeds, the scheme is http or
\* https and the host is not empty.
ValidParts(parsed) ==
    ~parsed.error /\ parsed.scheme \in {<<"http">>, <<"https">>} /\ parsed.netloc # <<>>

ValidURL(u) == ValidParts(urlsplit(u))

\* The path less one trailing slash.
StripSlash(path) ==
    IF Len(path) > 0 /\ path[Len(path)] = "/" THEN SubSeq(path, 1, Len(path) - 1) ELSE path

\* Two split URLs that differ at most in query, fragment and one trailing
\* slash of the path.
SameButQueryFragmentSlash(pu, pv) ==
    /\ pu.scheme = pv.scheme
    /\ pu.netloc = pv.netloc
    /\ StripSlash(pu.path) = StripSlash(pv.path)

\* _normalize_url is about to be called on any of the texts; no crawl runs.
NormInit ==
    /\ CrawlInit
    /\ slug = Off /\ twin = Off /\ race = Off
    /\ max_pages = 0
    /\ \E u \in RawURLs : norm = [NormOff EXCEPT !.pc = "input", !.url = u]
    /\ scorer = Off
    /\ builder = Off
    /\ pipeline = Off
    /\ generator = Off
    /\ places = Off

\* out = _normalize_url(url)
Normalize ==
    /\ norm.pc = "input"
    /\ norm' = [norm EXCEPT !.pc = "normalized", !.out = _normalize_url(norm.url)]
    /\ UNCHANGED <<crawl_vars, scorer, builder, pipeline, generator, places, slug, twin, race>>

\* again = _normalize_url(out)
NormalizeAgain ==
    /\ norm.pc = "normalized"
    /\ norm.out # None
    /\ norm' = [norm EXCEPT !.pc = "again", !.again = _normalize_url(norm.out)]
    /\ UNCHANGED <<crawl_vars, scorer, builder, pipeline, generator, places, slug, twin, race>>

\* other_out = _normalize_url(other), for a valid URL that differs from url
\* in query, fragment or trailing slash only
NormalizeOther ==
    /\ norm.pc = "normalized"
    /\ norm.out # None
    /\ \E v \in RawURLs :
          /\ ValidURL(v)
          /\ SameButQueryFragmentSlash(urlsplit(norm.url), urlsplit(v))
          /\ norm' = [norm EXCEPT !.pc = "other", !.other = v, !.other_out = _normalize_url(v)]
    /\ UNCHANGED <<crawl_vars, scorer, builder, pipeline, generator, places, slug, twin, race>>

NormNext == Normalize \/ NormalizeAgain \/ NormalizeOther

NormSpec == NormInit /\ [][NormNext]_vars

\* ------------------------------------------------ DigitalMaturityScorer

\* Numbers are whole: a rating is held in tenths (4.2 is 42), a subscore in
\* points, overall_score in hundredths of a point (92.5 is 9250), and
\* avg_word_count as the fraction num/den that statistics.mean divides out.

\* None in a field that otherwise holds a number (rating, user_ratings_total).
NoNumber == -1

\* Python truthiness of an optional string.
Truthy(s) == s # None /\ s # <<>>

\* `x or 0` and the truth test of an optional number.
OrZero(x) == IF x = NoNumber THEN 0 ELSE x

\* str.startswith("https") on the tokens of a URL.
StartsWithHttps(s) == Len(s) > 0 /\ s[1] = "https"

\* avg_word_count >= n
AtLeast(avg, n) == avg.num >= n * avg.den

\* `if cond: score += points`
Bonus(cond, points) == IF cond THEN points ELSE 0

\* min(score, 100.0)
Min(a, b) == IF a <= b THEN a ELSE b

\* 100 points where the bonuses should be capped at 100.
_score_technical_Uncapped(business, features) ==
    100 + Bonus(Truthy(business.website) /\ StartsWithHttps(business.website), 15)
        + Bonus(features.has_structured_data, 10)
        + Bonus(features.has_viewport_meta, 10)
        + Bonus(features.has_analytics, 15)

_score_technical(business, features) ==
    Min(50 + Bonus(Truthy(business.website) /\ StartsWithHttps(business.website), 15)
           + Bonus(features.has_structured_data, 10)
           + Bonus(features.has_viewport_meta, 10)
           + Bonus(features.has_analytics, 15),
        100)

_score_seo(features) ==
    Min(40 + Bonus(features.has_meta_description, 15)
           + Bonus(features.has_open_graph, 10)
           + Bonus(Len(features.languages) >= 2, 15)
           + Bonus(AtLeast(features.avg_word_count, 300), 20),
        100)

\* The contact call-to-action counted for 30 points.
_score_content_BigCTA(features) ==
    Min(35 + (IF AtLeast(features.avg_word_count, 400) THEN 20
              ELSE Bonus(AtLeast(features.avg_word_count, 250), 10))
           + Bonus(features.total_pages >= 3, 15)
           + Bonus(features.has_contact_cta, 30),
        100)

_score_content(features) ==
    Min(35 + (IF AtLeast(features.avg_word_count, 400) THEN 20
              ELSE Bonus(AtLeast(features.avg_word_count, 250), 10))
           + Bonus(features.total_pages >= 3, 15)
           + Bonus(features.has_contact_cta, 10),
        100)

\* Mutant of _score_trust: the count starts at 0.
_score_trust_NoBase(business, features) ==
    Min(Bonus(OrZero(business.rating) >= 42, 15)
           + Bonus(features.has_email_address, 10)
           + Bonus(features.has_phone_number, 10)
           + Bonus(OrZero(business.user_ratings_total) > 50, 10),
        100)

_score_trust(business, features) ==
    Min(45 + Bonus(OrZero(business.rating) >= 42, 15)
           + Bonus(features.has_email_address, 10)
           + Bonus(features.has_phone_number, 10)
           + Bonus(OrZero(business.user_ratings_total) > 50, 10),
        100)

_calculate_subscores(business, features) ==
    [technical |-> _score_technical(business, features),
     seo       |-> _score_seo(features),
     content   |-> _score_content(features),
     trust     |-> _score_trust(business, features)]

\* n/d rounded to the nearest whole number, a tie to the even one, as round does.
RoundHalfEven(n, d) ==
    IF 2 * (n % d) < d THEN n \div d
    ELSE IF 2 * (n % d) > d THEN (n \div d) + 1
    ELSE IF (n \div d) % 2 = 0 THEN n \div d
    ELSE (n \div d) + 1

\* The mean rounded to a whole number of points.
Overall_Whole(subscores) ==
    100 * RoundHalfEven(subscores.technical + subscores.seo + subscores.content
                            + subscores.trust, 4)

\* round((technical + seo + content + trust) / 4, 2), in hundredths
Overall(subscores) ==
    RoundHalfEven(100 * (subscores.technical + subscores.seo + subscores.content
                             + subscores.trust), 4)

\* What the LLM client's generate comes to: a text, or an exception.
LLMError == <<"<LLMError>">>

\* The replies to the four prompts of one score call: the k-th generate
\* fails, or none does (k = 0).
Replies(k) == [i \in 1..4 |-> IF i = k THEN LLMError ELSE <<" ", "summary", " ">>]

ReplySeqs == {Replies(k) : k \in 0..4}

RECURSIVE Strip(_)
\* str.strip()
Strip(s) ==
    IF Len(s) > 0 /\ s[1] = " " THEN Strip(Tail(s))
    ELSE RStrip(s, " ")

\* A call that raised; nothing is returned.
Raised == [raised |-> TRUE]

Returned(value) == [raised |-> FALSE, value |-> value]

MaturityAssessment(business, subscores, replies) ==
    [place_id           |-> business.place_id,
     overall_score      |-> Overall(subscores),
     subscores          |-> subscores,
     highlights_en      |-> Strip(replies[1]),
     highlights_ar      |-> Strip(replies[2]),
     recommendations_en |-> Strip(replies[3]),
     recommendations_ar |-> Strip(replies[4])]

\* DigitalMaturityScorer.score: the first generate that fails ends the call.
score(business, features, replies) ==
    IF \E k \in 1..4 : replies[k] = LLMError THEN Raised
    ELSE Returned(MaturityAssessment(business, _calculate_subscores(business, features),
                                     replies))

\* A record as discover builds it: no website and no phone number yet, and
\* google_maps_url built from the place id.
BusinessRecord(place_id, types, rating, user_ratings_total) ==
    [place_id           |-> place_id,
     types              |-> types,
     rating             |-> rating,
     user_ratings_total |-> user_ratings_total,
     website            |-> None,
     phone_number       |-> None,
     google_maps_url    |->
         <<"https", ":", "/", "/", "maps.google.com", "/", "?", "cid=", place_id>>]

\* The websites, ratings (in tenths) and rating counts of the businesses
\* scored: none, and values on both sides of each threshold.
ScoredBusinesses ==
    {[BusinessRecord("p1", <<"restaurant">>, r, n) EXCEPT !.website = w] :
        r \in {NoNumber, 41, 48}, n \in {NoNumber, 200},
        w \in {None, <<"http", ":", "/", "/", "h">>, <<"https", ":", "/", "/", "h">>}}

Signals ==
    {"has_structured_data", "has_meta_description", "has_open_graph", "has_analytics",
     "has_contact_cta", "has_viewport_meta", "has_email_address", "has_phone_number"}

\* avg_word_count of a whole number of words
Whole(n) == [num |-> n, den |-> 1]

FeatureVector(business, total_pages, languages, avg_word_count, shown) ==
    [place_id             |-> business.place_id,
     website              |-> business.website,
     total_pages          |-> total_pages,
     languages            |-> languages,
     avg_word_count       |-> avg_word_count,
     has_structured_data  |-> "has_structured_data" \in shown,
     has_meta_description |-> "has_meta_description" \in shown,
     has_open_graph       |-> "has_open_graph" \in shown,
     has_analytics        |-> "has_analytics" \in shown,
     has_contact_cta      |-> "has_contact_cta" \in shown,
     has_viewport_meta    |-> "has_viewport_meta" \in shown,
     has_email_address    |-> "has_email_address" \in shown,
     has_phone_number     |-> "has_phone_number" \in shown]

\* The feature vectors scored: every combination of the eight signals, with
\* page counts, language lists and word counts on both sides of each
\* threshold.  The vector is built for the business or, as the tests build
\* it, with no website.
FeatureVectors(business) ==
    {[FeatureVector(business, n, l, a, shown) EXCEPT !.website = w] :
        n \in {0, 5},
        l \in {<<>>, << <<"Arabic">> >>, << <<"Arabic">>, <<"English">> >>},
        a \in {Whole(0), Whole(300), Whole(500)},
        shown \in SUBSET Signals,
        w \in {None, business.website}}

\* score is about to be called on a business and a feature vector.
ScoreInit ==
    /\ CrawlInit
    /\ slug = Off /\ twin = Off /\ race = Off
    /\ max_pages = 0
    /\ norm = NormOff
    /\ \E b \in ScoredBusinesses : \E f \in FeatureVectors(b) :
          scorer = [pc |-> "input", business |-> b, features |-> f]
    /\ builder = Off
    /\ pipeline = Off
    /\ generator = Off
    /\ places = Off

\* assessment = scorer.score(business, features), every generate succeeding
ScoreReturns ==
    /\ scorer.pc = "input"
    /\ \E replies \in {Replies(0)} :
          scorer' = [pc |-> "returned", business |-> scorer.business,
                     features |-> scorer.features,
                     assessment |-> score(scorer.business, scorer.features, replies).value]
    /\ UNCHANGED <<crawl_vars, norm, builder, pipeline, generator, places, slug, twin, race>>

\* scorer.score(business, features) raises: one of the four generate calls failed
ScoreRaises ==
    /\ scorer.pc = "input"
    /\ \E replies \in ReplySeqs :
          /\ score(scorer.business, scorer.features, replies).raised
          /\ scorer' = [pc |-> "raised", business |-> scorer.business,
                        features |-> scorer.features]
    /\ UNCHANGED <<crawl_vars, norm, builder, pipeline, generator, places, slug, twin, race>>

ScoreSpec == ScoreInit /\ [][ScoreReturns \/ ScoreRaises]_vars

\* --------------------------------------------------- build_feature_vector

\* A page is held as its detected language, the elements of its HTML (tag,
\* the one attribute the code looks at, and the tokens of the element's
\* text) and the words of its extracted text.
Element(tag, attr, value, text) == [tag |-> tag, attr |-> attr, value |-> value, text |-> text]

PageSnapshot(language, raw_html, extracted_text) ==
    [language |-> language, raw_html |-> raw_html, extracted_text |-> extracted_text]

\* soup.find(tag, attrs={attr: value})
SoupFind(raw_html, tag, attr, value) ==
    \E k \in 1..Len(raw_html) :
        raw_html[k].tag = tag /\ raw_html[k].attr = attr /\ raw_html[k].value = <<value>>

\* re.search(pattern, raw_html) and `"schema.org" in raw_html`: the text
\* occurs somewhere in the markup, in an attribute value or in element text.
InMarkup(raw_html, needle) ==
    \E k \in 1..Len(raw_html) :
        \/ \E m \in 1..Len(raw_html[k].value) : raw_html[k].value[m] = needle
        \/ \E m \in 1..Len(raw_html[k].text) : raw_html[k].text[m] = needle

_ANALYTICS_PATTERNS == {"gtag(", "googletagmanager", "analytics.js", "gtm-"}

_CONTACT_KEYWORDS == {"contact", "book", "call", "appointment", "consultation"}

_contains_patterns(raw_html, patterns) == \E p \in patterns : InMarkup(raw_html, p)

_contains_contact_cta(raw_html) ==
    \E k \in 1..Len(raw_html) :
        /\ raw_html[k].tag = "a"
        /\ \E keyword \in _CONTACT_KEYWORDS :
              \E m \in 1..Len(raw_html[k].text) : Lower(raw_html[k].text)[m] = keyword

\* The signals one page shows.  Of the words of the model, the e-mail pattern
\* matches info@h.sa and the phone pattern +966112345678.
PageSignals(snapshot) ==
    {sig \in Signals :
        \/ /\ sig = "has_structured_data"
           /\ \/ SoupFind(snapshot.raw_html, "script", "type", "application/ld+json")
              \/ InMarkup(snapshot.raw_html, "schema.org")
        \/ sig = "has_meta_description"
              /\ SoupFind(snapshot.raw_html, "meta", "name", "description")
        \/ /\ sig = "has_open_graph"
           /\ \E k \in 1..Len(snapshot.raw_html) :
                 /\ snapshot.raw_html[k].tag = "meta"
                 /\ snapshot.raw_html[k].attr = "property"
                 /\ Len(snapshot.raw_html[k].value) > 0
                 /\ snapshot.raw_html[k].value[1] = "og:"
        \/ sig = "has_viewport_meta" /\ SoupFind(snapshot.raw_html, "meta", "name", "viewport")
        \/ sig = "has_analytics" /\ _contains_patterns(snapshot.raw_html, _ANALYTICS_PATTERNS)
        \/ sig = "has_contact_cta" /\ _contains_contact_cta(snapshot.raw_html)
        \/ sig = "has_email_address"
              /\ \E k \in 1..Len(snapshot.extracted_text) : snapshot.extracted_text[k] = "info@h.sa"
        \/ sig = "has_phone_number"
              /\ \E k \in 1..Len(snapshot.extracted_text) :
                    snapshot.extracted_text[k] = "+966112345678"}

\* The flags hold what the latest page shows.
MarkShown_LastPage(shown, snapshot) == PageSignals(snapshot)

\* `if <page shows it>: flag = True`, for the eight flags
MarkShown(shown, snapshot) == shown \cup PageSignals(snapshot)

\* _LANGUAGE_CODE_MAP.get(language.lower(), language)
LanguageLabel(language) ==
    IF Lower(language) \in {<<"ar">>, <<"ar-sa">>} THEN <<"Arabic">>
    ELSE IF Lower(language) \in {<<"en">>, <<"en-us">>} THEN <<"English">>
    ELSE language

\* language_counter[label] += 1, the counter held in insertion order
Increment(counter, label) ==
    IF \E k \in 1..Len(counter) : counter[k].label = label
    THEN [k \in 1..Len(counter) |->
             IF counter[k].label = label
             THEN [label |-> label, count |-> counter[k].count + 1]
             ELSE counter[k]]
    ELSE Append(counter, [label |-> label, count |-> 1])

\* One pass of the loop over the snapshots: a page with a language adds one
\* to its label's count.
Accumulate(acc, snapshot) ==
    [language_counter |->
         IF Truthy(snapshot.language)
         THEN Increment(acc.language_counter, LanguageLabel(snapshot.language))
         ELSE acc.language_counter,
     word_counts      |-> Append(acc.word_counts, Len(snapshot.extracted_text)),
     shown            |-> MarkShown(acc.shown, snapshot)]

RECURSIVE Loop(_)
\* The loop over all the snapshots, from empty accumulators.
Loop(pages) ==
    IF Len(pages) = 0
    THEN [language_counter |-> <<>>, word_counts |-> <<>>, shown |-> {}]
    ELSE Accumulate(Loop(SubSeq(pages, 1, Len(pages) - 1)),
                    pages[Len(pages)])

\* The item goes before the items it ties with.
InsertByCount_TiesFirst(sorted, item) ==
    SelectSeq(sorted, LAMBDA other : other.count > item.count)
        \o <<item>> \o SelectSeq(sorted, LAMBDA other : other.count <= item.count)

\* A stable sort puts an item behind every earlier item that counts as much or more.
InsertByCount(sorted, item) ==
    SelectSeq(sorted, LAMBDA other : other.count >= item.count)
        \o <<item>> \o SelectSeq(sorted, LAMBDA other : other.count < item.count)

RECURSIVE most_common(_)
\* Counter.most_common(): sorted by count, largest first, stable
most_common(counter) ==
    IF Len(counter) = 0 THEN <<>>
    ELSE InsertByCount(most_common(SubSeq(counter, 1, Len(counter) - 1)),
                       counter[Len(counter)])

RECURSIVE Sum(_)
Sum(numbers) == IF Len(numbers) = 0 THEN 0 ELSE Head(numbers) + Sum(Tail(numbers))

\* The labels of most_common() in order, and mean(word_counts) as the
\* fraction of the sum and the number of pages.
build_feature_vector(business, pages) ==
    IF Len(pages) = 0 THEN FeatureVector(business, 0, <<>>, Whole(0), {})
    ELSE FeatureVector(business, Len(pages),
                       [k \in 1..Len(Loop(pages).language_counter) |->
                           most_common(Loop(pages).language_counter)[k].label],
                       [num |-> Sum(Loop(pages).word_counts), den |-> Len(pages)],
                       Loop(pages).shown)

\* The most snapshots a page list holds.
MaxSnapshots == 3

\* The pages: a blank one with no language; an Arabic one with a meta
\* description, a viewport, a contact link and an e-mail address; an English
\* one (code in upper case) with JSON-LD, Open Graph, a gtag call and a phone
\* number; a French one that only names schema.org, with a meta property
\* that is not Open Graph, a link that is no call to action, and words that
\* are nearly an address and a number; one detected as ar-sa that loads the
\* tag manager; a plain English one.
PageSamples ==
    { PageSnapshot(None, <<>>, <<>>),
      PageSnapshot(<<"ar">>,
                   << Element("meta", "name", <<"description">>, <<>>),
                      Element("meta", "name", <<"viewport">>, <<>>),
                      Element("a", "href", <<"/", "contact">>, <<"Contact", "us">>) >>,
                   <<"welcome", "info@h.sa">>),
      PageSnapshot(<<"EN">>,
                   << Element("script", "type", <<"application/ld+json">>, <<"{", "}">>),
                      Element("meta", "property", <<"og:", "title">>, <<>>),
                      Element("script", "type", <<"text/javascript">>, <<"gtag(", "config", ")">>) >>,
                   <<"phone", "+966112345678", "today">>),
      PageSnapshot(<<"fr">>,
                   << Element("meta", "property", <<"article:", "author">>, <<>>),
                      Element("div", "itemtype", <<"https", ":", "/", "/", "schema.org", "/", "Place">>, <<>>),
                      Element("a", "href", <<"/", "about">>, <<"About">>) >>,
                   <<"info@h", "12345">>),
      PageSnapshot(<<"ar-sa">>,
                   << Element("script", "src", <<"https", ":", "/", "/", "googletagmanager", "/", "gtm.js">>, <<>>) >>,
                   <<"welcome">>),
      PageSnapshot(<<"en">>, <<>>, <<"welcome", "welcome">>) }

\* build_feature_vector is about to be called on a list of snapshots.
FeatureInit ==
    /\ CrawlInit
    /\ slug = Off /\ twin = Off /\ race = Off
    /\ max_pages = 0
    /\ norm = NormOff
    /\ scorer = Off
    /\ \E pages \in UNION {[1..n -> PageSamples] : n \in 0..MaxSnapshots} :
          builder = [pc |-> "input", pages |-> pages,
                     business |-> [BusinessRecord("p1", <<"restaurant">>, 48, 200)
                                      EXCEPT !.website = <<"https", ":", "/", "/", "h">>]]
    /\ pipeline = Off
    /\ generator = Off
    /\ places = Off

\* vector = build_feature_vector(business, pages)
Build ==
    /\ builder.pc = "input"
    /\ builder' = [pc |-> "built", business |-> builder.business, pages |-> builder.pages,
                   vector |-> build_feature_vector(builder.business, builder.pages)]
    /\ UNCHANGED <<crawl_vars, norm, scorer, pipeline, generator, places, slug, twin, race>>

FeatureSpec == FeatureInit /\ [][Build]_vars

\* ------------------------------------------------- _analyze_businesses

\* The most businesses a discovery hands to the analysis.
MaxBusinesses == 3

\* The businesses discovered: with an https website, with none (and no
\* types, rating or count), with an http website, with a second https one.
DiscoveredBusinesses ==
    { [BusinessRecord("p1", <<"restaurant">>, 48, 200) EXCEPT
          !.website = <<"https", ":", "/", "/", "h">>],
      BusinessRecord("p2", <<>>, NoNumber, NoNumber),
      [BusinessRecord("p3", <<"beauty_salon", "store">>, 41, 200) EXCEPT
          !.website = <<"http", ":", "/", "/", "h">>],
      [BusinessRecord("p4", <<"clinic">>, 41, NoNumber) EXCEPT
          !.website = <<"https", ":", "/", "/", "g">>] }

\* What web_crawler.crawl(website) may return; WebCrawler.crawl itself is
\* the subject of Spec.  The page lists are told apart by their pages.
CrawlResults ==
    { <<>>,
      << PageSnapshot(<<"ar">>,
                      << Element("meta", "name", <<"description">>, <<>>),
                         Element("a", "href", <<"/", "contact">>, <<"Contact", "us">>) >>,
                      <<"welcome", "info@h.sa">>) >>,
      << PageSnapshot(<<"en">>, <<>>, <<"welcome", "welcome">>),
         PageSnapshot(<<"ar">>,
                      << Element("meta", "name", <<"viewport">>, <<>>) >>,
                      <<"welcome", "+966112345678">>) >> }

\* types[0].replace("_", " ").title(), for the types of the model
_infer_industry(business) ==
    IF Len(business.types) = 0 THEN "General"
    ELSE IF business.types[1] = "restaurant" THEN "Restaurant"
    ELSE IF business.types[1] = "beauty_salon" THEN "Beauty Salon"
    ELSE IF business.types[1] = "clinic" THEN "Clinic"
    ELSE business.types[1]

AnalyzedBusiness(business, feature_vector, pages, maturity) ==
    [business       |-> business,
     feature_vector |-> feature_vector,
     pages          |-> pages,
     maturity       |-> maturity,
     industry       |-> _infer_industry(business)]

\* _analyze_businesses is about to run on a list of businesses; a discovery
\* returns each place once (the values of a dict keyed by place id).
AnalyzeInit ==
    /\ CrawlInit
    /\ slug = Off /\ twin = Off /\ race = Off
    /\ max_pages = 0
    /\ norm = NormOff
    /\ scorer = Off
    /\ builder = Off
    /\ \E list \in UNION {[1..n -> DiscoveredBusinesses] : n \in 0..MaxBusinesses} :
       \E web \in BOOLEAN :
          /\ \A i, j \in 1..Len(list) : i # j => list[i].place_id # list[j].place_id
          /\ pipeline = [pc |-> "loop", include_web_analysis |-> web, businesses |-> list,
                      index |-> 1, analyses |-> <<>>, outcomes |-> <<>>]
    /\ generator = Off
    /\ places = Off

\* The business of this pass of the loop.
Current == pipeline.businesses[pipeline.index]

\* The pages of this pass: the crawl's return when the business has a
\* website and web analysis is on, else none.
PagesChoices ==
    IF pipeline.include_web_analysis /\ Truthy(Current.website) THEN CrawlResults ELSE {<<>>}

\* A pass in which the crawl raises (an error crawl does not catch, such as
\* the ValueError of a malformed link): the exception leaves the loop.
CrawlRaised ==
    /\ pipeline.pc = "loop"
    /\ pipeline.index <= Len(pipeline.businesses)
    /\ pipeline.include_web_analysis /\ Truthy(Current.website)
    /\ pipeline' = [pipeline EXCEPT !.pc = "raised",
                                    !.outcomes = Append(@, "crawl_raised")]
    /\ UNCHANGED <<crawl_vars, norm, scorer, builder, generator, places, slug, twin, race>>

\* A pass in which score returns: the analysis is appended.
Scored ==
    /\ pipeline.pc = "loop"
    /\ pipeline.index <= Len(pipeline.businesses)
    /\ \E pages \in PagesChoices :
          \E maturity \in {score(Current, build_feature_vector(Current, pages), Replies(0))} :
             pipeline' = [pipeline EXCEPT
                 !.index = @ + 1,
                 !.analyses = Append(@, AnalyzedBusiness(Current,
                                  build_feature_vector(Current, pages), pages, maturity.value)),
                 !.outcomes = Append(@, "scored")]
    /\ UNCHANGED <<crawl_vars, norm, scorer, builder, generator, places, slug, twin, race>>

\* The failure of score leaves the loop.
ScoringFailed_Abort ==
    /\ pipeline.pc = "loop"
    /\ pipeline.index <= Len(pipeline.businesses)
    /\ \E pages \in PagesChoices : \E replies \in ReplySeqs :
          /\ score(Current, build_feature_vector(Current, pages), replies).raised
          /\ pipeline' = [pipeline EXCEPT !.pc = "raised",
                                          !.outcomes = Append(@, "scoring_failed")]
    /\ UNCHANGED <<crawl_vars, norm, scorer, builder, generator, places, slug, twin, race>>

\* A pass in which score raises: logged, and on to the next business.
ScoringFailed ==
    /\ pipeline.pc = "loop"
    /\ pipeline.index <= Len(pipeline.businesses)
    /\ \E pages \in PagesChoices : \E replies \in ReplySeqs :
          /\ score(Current, build_feature_vector(Current, pages), replies).raised
          /\ pipeline' = [pipeline EXCEPT !.index = @ + 1,
                                          !.outcomes = Append(@, "scoring_failed")]
    /\ UNCHANGED <<crawl_vars, norm, scorer, builder, generator, places, slug, twin, race>>

\* The loop is over: return analyses.
AnalyzeReturn ==
    /\ pipeline.pc = "loop"
    /\ pipeline.index > Len(pipeline.businesses)
    /\ pipeline' = [pipeline EXCEPT !.pc = "returned"]
    /\ UNCHANGED <<crawl_vars, norm, scorer, builder, generator, places, slug, twin, race>>

AnalyzeSpec == AnalyzeInit /\ [][CrawlRaised \/ Scored \/ ScoringFailed \/ AnalyzeReturn]_vars

\* ---------------------------------------------------------- OfferGenerator

\* The text of an LLM reply is a sequence of tokens: the six punctuation
\* marks of JSON, string literals, the literals 1 and null, and words of
\* prose.  White space is not held; json.loads skips it.
JsonStrings ==
    {"\"justification\"", "\"body_ar\"", "\"next_steps\"", "\"text\""}

\* A parsed value: its Python type, its truth value and, of a dict, the
\* type and truth value of each member.
JsonValue(kind, truthy, members) == [kind |-> kind, truthy |-> truthy, members |-> members]

NoMembers == [key \in {} |-> JsonValue("null", FALSE, <<>>)]

\* members[key] = value; of the value of a member only type and truth are held
Put(members, key, value) ==
    [k \in DOMAIN members \cup {key} |->
        IF k = key THEN JsonValue(value.kind, value.truthy, <<>>) ELSE members[k]]

\* A value was parsed; rest is the text behind it.  When the parser fails
\* (json.JSONDecodeError) the result is [ok |-> FALSE].
JsonOk(value, rest) == [ok |-> TRUE, value |-> value, rest |-> rest]

RECURSIVE ParseValue(_), AfterItem(_), ParseMembers(_, _), AfterMember(_, _, _)

\* json.JSONDecoder: one value at the front of the text
ParseValue(t) ==
    IF Len(t) = 0 THEN [ok |-> FALSE]
    ELSE IF t[1] \in JsonStrings THEN JsonOk(JsonValue("str", TRUE, NoMembers), Tail(t))
    ELSE IF t[1] = "1" THEN JsonOk(JsonValue("int", TRUE, NoMembers), Tail(t))
    ELSE IF t[1] = "null" THEN JsonOk(JsonValue("null", FALSE, NoMembers), Tail(t))
    ELSE IF t[1] = "["
         THEN (IF Len(t) > 1 /\ t[2] = "]"
               THEN JsonOk(JsonValue("list", FALSE, NoMembers), SubSeq(t, 3, Len(t)))
               ELSE AfterItem(ParseValue(Tail(t))))
    ELSE IF t[1] = "{"
         THEN (IF Len(t) > 1 /\ t[2] = "}"
               THEN JsonOk(JsonValue("dict", FALSE, NoMembers), SubSeq(t, 3, Len(t)))
               ELSE ParseMembers(Tail(t), NoMembers))
    ELSE [ok |-> FALSE]

\* The items of an array, behind an item.
AfterItem(r) ==
    IF ~r.ok \/ Len(r.rest) = 0 THEN [ok |-> FALSE]
    ELSE IF r.rest[1] = "," THEN AfterItem(ParseValue(Tail(r.rest)))
    ELSE IF r.rest[1] = "]" THEN JsonOk(JsonValue("list", TRUE, NoMembers), Tail(r.rest))
    ELSE [ok |-> FALSE]

\* The members of an object, from a key on.
ParseMembers(t, members) ==
    IF Len(t) < 3 \/ t[1] \notin JsonStrings \/ t[2] # ":" THEN [ok |-> FALSE]
    ELSE AfterMember(ParseValue(SubSeq(t, 3, Len(t))), t[1], members)

AfterMember(r, key, members) ==
    IF ~r.ok \/ Len(r.rest) = 0 THEN [ok |-> FALSE]
    ELSE IF r.rest[1] = "," THEN ParseMembers(Tail(r.rest), Put(members, key, r.value))
    ELSE IF r.rest[1] = "}"
         THEN JsonOk(JsonValue("dict", TRUE, Put(members, key, r.value)), Tail(r.rest))
    ELSE [ok |-> FALSE]

\* json.loads: the text must be one value and nothing more
json_loads(text) ==
    IF ParseValue(text).ok /\ ParseValue(text).rest = <<>>
    THEN Returned(ParseValue(text).value)
    ELSE Raised

\* str.rfind for one token, 1-based; 0 when absent.
RFind(s, t) ==
    IF \E k \in 1..Len(s) : s[k] = t
    THEN CHOOSE k \in 1..Len(s) : s[k] = t /\ \A m \in (k + 1)..Len(s) : s[m] # t
    ELSE 0

_extract_json(text) ==
    IF Find(text, "{") # 0 /\ RFind(text, "}") # 0 /\ RFind(text, "}") > Find(text, "{")
    THEN SubSeq(text, Find(text, "{"), RFind(text, "}"))
    ELSE None

\* _invoke_llm_json, from the text generate returned: what json.loads makes
\* of it, else of what _extract_json cuts out of it, else {}
_invoke_llm_json(raw) ==
    IF ~json_loads(raw).raised THEN json_loads(raw).value
    ELSE IF Truthy(_extract_json(raw)) /\ ~json_loads(_extract_json(raw)).raised
    THEN json_loads(_extract_json(raw)).value
    ELSE JsonValue("dict", FALSE, NoMembers)

\* The default of a field, written in the code.
DefaultValue == JsonValue("default", TRUE, NoMembers)

\* data.get(key, default) and data.get(key)
Get(data, key, default) == IF key \in DOMAIN data.members THEN data.members[key] ELSE default

\* value or default
Or(value, default) == IF value.truthy THEN value ELSE default

\* _extract_list: a list or a string gives the list of its items
_extract_list(value, fallback) ==
    IF value.kind \in {"list", "str"} THEN JsonValue("list", value.truthy, NoMembers)
    ELSE Or(fallback, JsonValue("list", FALSE, NoMembers))

\* analyze_package_fit, from overall_score in hundredths
analyze_package_fit(analysis) ==
    IF analysis.overall_score < 3000 THEN "BASIC"
    ELSE IF analysis.overall_score < 7000 THEN "PROFESSIONAL"
    ELSE "ENTERPRISE"

\* maturity_distribution of _create_summary, from scores in hundredths
maturity_distribution(scores) ==
    [low    |-> Len(SelectSeq(scores, LAMBDA s : s <= 3000)),
     medium |-> Len(SelectSeq(scores, LAMBDA s : 3100 <= s /\ s <= 7000)),
     high   |-> Len(SelectSeq(scores, LAMBDA s : s > 7000))]

\* calculate_adjusted_price: base price of the tier plus the premium of the industry
calculate_adjusted_price(package, industry) ==
    (IF package = "BASIC" THEN 1500 ELSE IF package = "PROFESSIONAL" THEN 3500 ELSE 8000)
        + (IF industry = "Restaurant" THEN 200 ELSE 0)

TailoredOffer(analysis, offer_data) ==
    [package_recommendation |-> analyze_package_fit(analysis),
     adjusted_price    |-> calculate_adjusted_price(analyze_package_fit(analysis),
                                                    analysis.industry),
     justification     |-> Get(offer_data, "\"justification\"", DefaultValue),
     arabic_summary    |-> Get(offer_data, "\"summary_ar\"", DefaultValue),
     english_summary   |-> Get(offer_data, "\"summary_en\"", DefaultValue),
     priority_features |-> _extract_list(Get(offer_data, "\"priority_features\"",
                                             JsonValue("null", FALSE, NoMembers)),
                                         JsonValue("null", FALSE, NoMembers)),
     roi_projection    |-> Get(offer_data, "\"roi_projection\"", DefaultValue),
     next_steps        |-> _extract_list(Get(offer_data, "\"next_steps\"",
                                             JsonValue("null", FALSE, NoMembers)),
                                         DefaultValue)]

OutreachMessage(message_data) ==
    [subject_ar     |-> Get(message_data, "\"subject_ar\"", DefaultValue),
     subject_en     |-> Get(message_data, "\"subject_en\"", DefaultValue),
     body_ar        |-> Or(Get(message_data, "\"body_ar\"", JsonValue("null", FALSE, NoMembers)),
                           DefaultValue),
     body_en        |-> Or(Get(message_data, "\"body_en\"", JsonValue("null", FALSE, NoMembers)),
                           DefaultValue),
     call_to_action |-> Get(message_data, "\"call_to_action\"", DefaultValue),
     business_specific_details |-> Get(message_data, "\"business_details\"", DefaultValue)]

\* The replies of the LLM: what may stand before the JSON (nothing, prose, a
\* stray brace), the JSON or near-JSON itself, and what may stand behind it.
ReplyCores ==
    { <<>>,
      <<"{", "}">>,
      <<"{", "\"justification\"", ":", "\"text\"", "}">>,
      <<"{", "\"body_ar\"", ":", "null", ",", "\"next_steps\"", ":", "[", "\"text\"", "]", "}">>,
      <<"{", "\"justification\"", ":", "{", "\"text\"", ":", "1", "}", ",",
        "\"next_steps\"", ":", "1", "}">>,
      <<"[", "1", ",", "1", "]">>,
      <<"[", "{", "}", "]">>,
      <<"\"text\"">>,
      <<"1">>,
      <<"null">>,
      <<"{", "\"justification\"", "}">>,
      <<"{", "\"justification\"", ":", "\"text\"", ",", "}">> }

LLMJsonReplies ==
    {p \o c \o x : p \in {<<>>, <<"Here", "is">>, <<"{">>, <<"}">>}, c \in ReplyCores,
                   x \in {<<>>, <<"thanks">>, <<"}">>, <<"{">>}} \cup {LLMError}

\* generate_tailored_offer or create_outreach_message is about to be called;
\* reply is what generate will come to.  The analyses have overall_score (in
\* hundredths) on each side of the package thresholds, with and without a
\* premium.
OfferInit ==
    /\ CrawlInit
    /\ slug = Off /\ twin = Off /\ race = Off
    /\ max_pages = 0
    /\ norm = NormOff
    /\ scorer = Off
    /\ builder = Off
    /\ pipeline = Off
    /\ \E call \in {"generate_tailored_offer", "create_outreach_message"} :
          \E analysis \in { [overall_score |-> 2950, industry |-> "Restaurant"],
                            [overall_score |-> 4250, industry |-> "General"],
                            [overall_score |-> 9250, industry |-> "Restaurant"] } :
          \E reply \in LLMJsonReplies :
             generator = [pc |-> "called", call |-> call, analysis |-> analysis,
                          reply |-> reply]
    /\ places = Off

\* self._llm.generate(prompt) raises; the exception leaves the call.
GenerateRaises ==
    /\ generator.pc = "called"
    /\ generator.reply = LLMError
    /\ generator' = [pc |-> "raised", call |-> generator.call,
                     analysis |-> generator.analysis, reply |-> generator.reply,
                     error |-> "LLMError"]
    /\ UNCHANGED <<crawl_vars, norm, scorer, builder, pipeline, places, slug, twin, race>>

\* data = self._invoke_llm_json(prompt)
InvokeLLMJson ==
    /\ generator.pc = "called"
    /\ generator.reply # LLMError
    /\ generator' = [pc |-> "invoked", call |-> generator.call,
                     analysis |-> generator.analysis, reply |-> generator.reply,
                     data |-> _invoke_llm_json(generator.reply)]
    /\ UNCHANGED <<crawl_vars, norm, scorer, builder, pipeline, places, slug, twin, race>>

\* offer_data.get(...) on what is not a dict: AttributeError.
GetRaises ==
    /\ generator.pc = "invoked"
    /\ generator.data.kind # "dict"
    /\ generator' = [pc |-> "raised", call |-> generator.call,
                     analysis |-> generator.analysis, reply |-> generator.reply,
                     data |-> generator.data, error |-> "AttributeError"]
    /\ UNCHANGED <<crawl_vars, norm, scorer, builder, pipeline, places, slug, twin, race>>

\* return TailoredOffer(...)
ReturnOffer ==
    /\ generator.pc = "invoked"
    /\ generator.call = "generate_tailored_offer"
    /\ generator.data.kind = "dict"
    /\ generator' = [pc |-> "returned", call |-> generator.call,
                     analysis |-> generator.analysis, reply |-> generator.reply,
                     data |-> generator.data,
                     result |-> TailoredOffer(generator.analysis, generator.data)]
    /\ UNCHANGED <<crawl_vars, norm, scorer, builder, pipeline, places, slug, twin, race>>

\* return OutreachMessage(...)
ReturnOutreach ==
    /\ generator.pc = "invoked"
    /\ generator.call = "create_outreach_message"
    /\ generator.data.kind = "dict"
    /\ generator' = [pc |-> "returned", call |-> generator.call,
                     analysis |-> generator.analysis, reply |-> generator.reply,
                     data |-> generator.data, result |-> OutreachMessage(generator.data)]
    /\ UNCHANGED <<crawl_vars, norm, scorer, builder, pipeline, places, slug, twin, race>>

OfferSpec ==
    OfferInit /\ [][GenerateRaises \/ InvokeLLMJson \/ GetRaises \/ ReturnOffer
                       \/ ReturnOutreach]_vars

\* ------------------------------------- GooglePlacesClient and discovery

\* stop_after_attempt(3) of _places_nearby and _place_details
PlacesAttempts == 3

\* What the attempts of a Places request come to.
AttemptSeqs == [1..PlacesAttempts -> {"ok", "ApiError", "TransportError", "Timeout"}]

RECURSIVE Retrying(_, _)
\* tenacity around a Places request: a TransportError is retried until the
\* third attempt, whose outcome stands; any other outcome stands at once.
Retrying(outcomes, attempt_number) ==
    IF outcomes[attempt_number] # "TransportError" \/ attempt_number >= PlacesAttempts
    THEN outcomes[attempt_number]
    ELSE Retrying(outcomes, attempt_number + 1)

\* max_businesses of the run is drawn from 1..MaxBusinessesBound.
MaxBusinessesBound == 2

\* The most business types a run is given.
MaxTypes == 3

\* The most result pages the Places API serves for one search.
MaxNearbyPages == 2

\* The result pages of a nearby search, as the place ids of the candidates.
NearbyPages == {<<>>, <<"p1">>, <<"p1", "p2">>, <<"p2", "p3">>, <<"p3", "p3">>}

\* The result of a details request; a key the answer lacks is held as None.
DetailResults ==
    { [formatted_phone_number |-> None, international_phone_number |-> None,
       website |-> None, url |-> None],
      [formatted_phone_number |-> None, international_phone_number |-> <<"+966112345678">>,
       website |-> <<"https", ":", "/", "/", "h">>,
       url |-> <<"https", ":", "/", "/", "maps.google.com", "/", "?", "cid=", "1">>] }

\* per_type_limit = max(1, max_businesses // max(len(business_types), 1))
PerTypeLimit(max_businesses, business_types) ==
    IF Len(business_types) = 0 THEN IF max_businesses >= 1 THEN max_businesses ELSE 1
    ELSE IF max_businesses \div Len(business_types) >= 1
    THEN max_businesses \div Len(business_types)
    ELSE 1

RECURSIVE AddCandidates(_, _)
\* The loop over the candidates of a page: a new place id adds a record (the
\* dict of results is held as the sequence of its values).
AddCandidates(results, candidates) ==
    IF Len(candidates) = 0 THEN results
    ELSE AddCandidates(
             IF \E k \in 1..Len(results) : results[k].place_id = Head(candidates)
             THEN results
             ELSE Append(results, BusinessRecord(Head(candidates), <<"store">>, 41, 200)),
             Tail(candidates))

RECURSIVE Merge(_, _)
\* The loop of _discover_businesses over the records of one type.
Merge(discovered, results) ==
    IF Len(results) = 0 THEN discovered
    ELSE Merge(IF \E k \in 1..Len(discovered) :
                      discovered[k].place_id = Head(results).place_id
               THEN discovered
               ELSE Append(discovered, Head(results)),
               Tail(results))

\* The three assignments of _enrich_with_details.
Enriched(record, result) ==
    [record EXCEPT
        !.phone_number = IF Truthy(result.formatted_phone_number)
                         THEN result.formatted_phone_number
                         ELSE IF Truthy(result.international_phone_number)
                         THEN result.international_phone_number
                         ELSE record.phone_number,
        !.website = IF result.website # None THEN result.website ELSE record.website,
        !.google_maps_url = IF result.url # None THEN result.url ELSE record.google_maps_url]

\* _discover_businesses is about to run.
PlacesInit ==
    /\ CrawlInit
    /\ slug = Off /\ twin = Off /\ race = Off
    /\ max_pages = 0
    /\ norm = NormOff
    /\ scorer = Off
    /\ builder = Off
    /\ pipeline = Off
    /\ generator = Off
    /\ \E m \in 1..MaxBusinessesBound :
       \E types \in UNION {[1..n -> {"restaurant", "clinic"}] : n \in 1..MaxTypes} :
          places = [pc |-> "types", max_businesses |-> m, business_types |-> types,
                    type_index |-> 1, discovered |-> <<>>, results |-> <<>>,
                    pages_fetched |-> 0, enrich_index |-> 0,
                    error |-> [call |-> "none", kind |-> "none"]]

\* The next business type: places_client.discover is called.
DiscoverType ==
    /\ places.pc = "types"
    /\ places.type_index <= Len(places.business_types)
    /\ places' = [places EXCEPT !.pc = "nearby", !.results = <<>>, !.pages_fetched = 0,
                                !.enrich_index = 0, !.error = [call |-> "none", kind |-> "none"]]
    /\ UNCHANGED <<crawl_vars, norm, scorer, builder, pipeline, generator, slug, twin, race>>

\* One pass of discover's loop: a page of candidates is added; the loop ends
\* when there is no further page or max_results records are held.
NearbyOk ==
    /\ places.pc = "nearby"
    /\ \E tries \in AttemptSeqs : Retrying(tries, 1) = "ok"
    /\ \E page \in NearbyPages :
          \E token \in (IF places.pages_fetched + 1 < MaxNearbyPages THEN BOOLEAN ELSE {FALSE}) :
             places' = [places EXCEPT
                 !.results = AddCandidates(@, page),
                 !.pages_fetched = @ + 1,
                 !.enrich_index = 1,
                 !.pc = IF ~token \/ Len(AddCandidates(places.results, page))
                                      >= PerTypeLimit(places.max_businesses,
                                                      places.business_types)
                        THEN "details" ELSE "nearby"]
    /\ UNCHANGED <<crawl_vars, norm, scorer, builder, pipeline, generator, slug, twin, race>>

\* The nearby search fails: discover raises.
NearbyRaises ==
    /\ places.pc = "nearby"
    /\ \E tries \in AttemptSeqs :
          /\ Retrying(tries, 1) # "ok"
          /\ places' = [places EXCEPT
                 !.pc = "discover_raised",
                 !.error = [call |-> "places_nearby", kind |-> Retrying(tries, 1)]]
    /\ UNCHANGED <<crawl_vars, norm, scorer, builder, pipeline, generator, slug, twin, race>>

\* The details of one record arrive and are written into it.
DetailsOk ==
    /\ places.pc = "details"
    /\ places.enrich_index <= Len(places.results)
    /\ \E tries \in AttemptSeqs : Retrying(tries, 1) = "ok"
    /\ \E result \in DetailResults :
          places' = [places EXCEPT
              !.results[places.enrich_index] = Enriched(@, result),
              !.enrich_index = @ + 1]
    /\ UNCHANGED <<crawl_vars, norm, scorer, builder, pipeline, generator, slug, twin, race>>

\* The details request raises ApiError: logged, the record is left as it is.
DetailsApiError ==
    /\ places.pc = "details"
    /\ places.enrich_index <= Len(places.results)
    /\ \E tries \in AttemptSeqs : Retrying(tries, 1) = "ApiError"
    /\ places' = [places EXCEPT !.enrich_index = @ + 1,
                                !.error = [call |-> "place_details", kind |-> "ApiError"]]
    /\ UNCHANGED <<crawl_vars, norm, scorer, builder, pipeline, generator, slug, twin, race>>

\* The details request raises something else (a TransportError on each of
\* the three tries, a Timeout): nothing catches it in the client, so
\* discover raises.
DetailsRaises ==
    /\ places.pc = "details"
    /\ places.enrich_index <= Len(places.results)
    /\ \E tries \in AttemptSeqs :
          /\ Retrying(tries, 1) \in {"TransportError", "Timeout"}
          /\ places' = [places EXCEPT
                 !.pc = "discover_raised",
                 !.error = [call |-> "place_details", kind |-> Retrying(tries, 1)]]
    /\ UNCHANGED <<crawl_vars, norm, scorer, builder, pipeline, generator, slug, twin, race>>

\* discover returns its first max_results records, and _discover_businesses
\* keeps those whose place id it does not hold yet.
DiscoverReturns ==
    /\ places.pc = "details"
    /\ places.enrich_index > Len(places.results)
    /\ places' = [places EXCEPT
           !.pc = "types",
           !.type_index = @ + 1,
           !.discovered = Merge(@, Prefix(places.results,
                                       PerTypeLimit(places.max_businesses,
                                                    places.business_types)))]
    /\ UNCHANGED <<crawl_vars, norm, scorer, builder, pipeline, generator, slug, twin, race>>

\* `except Exception: continue` of _discover_businesses: the type is given up.
DiscoveryFailed ==
    /\ places.pc = "discover_raised"
    /\ places' = [places EXCEPT !.pc = "types", !.type_index = @ + 1]
    /\ UNCHANGED <<crawl_vars, norm, scorer, builder, pipeline, generator, slug, twin, race>>

\* return list(discovered.values())
DiscoverBusinessesReturn ==
    /\ places.pc = "types"
    /\ places.type_index > Len(places.business_types)
    /\ places' = [places EXCEPT !.pc = "returned"]
    /\ UNCHANGED <<crawl_vars, norm, scorer, builder, pipeline, generator, slug, twin, race>>

PlacesSpec ==
    PlacesInit /\ [][DiscoverType \/ NearbyOk \/ NearbyRaises \/ DetailsOk \/ DetailsApiError
                        \/ DetailsRaises \/ DiscoverReturns \/ DiscoveryFailed
                        \/ DiscoverBusinessesReturn]_vars

\* ------------------------------------------------------------ cli._slugify

\* A string is held as the sequence of its characters.  "e_acute" stands
\* for the letter e with an acute accent and "alpha" for the Greek letter:
\* letters outside ASCII, both lower case.

\* The longest string _slugify is applied to.
MaxSlugLen == 4

\* The characters of the strings: an ASCII capital, an ASCII letter, a
\* digit, a blank, a hyphen, a punctuation mark and the two other letters.
SlugChars == {"T", "a", "1", " ", "-", "!", "e_acute", "alpha"}

\* str.isalnum on one character: true of every letter and digit of Unicode.
isalnum(ch) == ch \in {"T", "t", "a", "1", "e_acute", "alpha"}

\* value.strip().lower() with every character that is not alphanumeric
\* turned into "-", split at "-", the empty parts dropped.
SlugParts(value) ==
    FilterEmpty(Split([k \in 1..Len(Strip(value)) |->
                          IF isalnum(Lower(Strip(value))[k]) THEN Lower(Strip(value))[k]
                          ELSE "-"],
                      "-"))

\* cli._slugify: "-".join(parts) or "business"
_slugify(value) ==
    IF SlugParts(value) = <<>> THEN <<"b", "u", "s", "i", "n", "e", "s", "s">>
    ELSE Join(SlugParts(value), "-")

\* _slugify is about to be called on a string.
SlugInit ==
    /\ CrawlInit
    /\ max_pages = 0
    /\ norm = NormOff
    /\ scorer = Off
    /\ builder = Off
    /\ pipeline = Off
    /\ generator = Off
    /\ places = Off
    /\ \E value \in UNION {[1..n -> SlugChars] : n \in 0..MaxSlugLen} :
          slug = [pc |-> "input", value |-> value]
    /\ twin = Off
    /\ race = Off

\* result = _slugify(value)
Slugify ==
    /\ slug.pc = "input"
    /\ slug' = [pc |-> "returned", value |-> slug.value, result |-> _slugify(slug.value)]
    /\ UNCHANGED <<crawl_vars, norm, scorer, builder, pipeline, generator, places, twin, race>>

SlugSpec == SlugInit /\ [][Slugify]_vars

\* --------------------------------------------- two crawls of one site

\* Two crawls, a and b, are given the same seed, the same max_pages, the
\* same robots policy and the same answer for every URL.  Each pass of the
\* loop is one step.  What the two do not share is the order in which the
\* set of links of a page iterates: it follows the hashes of the strings,
\* which differ from one interpreter run to the next.

\* The sites: the page the root serves, and the page every other URL
\* serves, or None when fetching the others fails.
TwinSites == [root : Pages, other : Pages \cup {None}]

\* What _fetch_html returns for a URL of the site.
PageOf(site, root, u) == IF u = root THEN site.root ELSE site.other

\* The two crawls are about to enter the loop.
TwinInit ==
    /\ CrawlInit
    /\ max_pages = 0
    /\ norm = NormOff
    /\ scorer = Off
    /\ builder = Off
    /\ pipeline = Off
    /\ generator = Off
    /\ places = Off
    /\ slug = Off
    /\ \E seed \in {<<"https", ":", "/", "/", "h">>, <<"https", ":", "/", "/", "h", "/">>} :
       \E limit \in 1..MaxPagesBound : \E rules \in RuleSets : \E site \in TwinSites :
       \E start \in {[pc |-> "loop", to_visit |-> <<_normalize_url(seed)>>, seen |-> {},
                      snapshots |-> <<>>]} :
          twin = [root |-> _normalize_url(seed), max_pages |-> limit,
                  parser |-> ReadRobots([kind |-> "ok", rules |-> rules]),
                  site |-> site, a |-> start, b |-> start]
    /\ race = Off

\* One pass of the loop of crawl c: the front is popped and skipped, or
\* marked seen and fetched; a page that arrives gets its snapshot and its
\* links are enqueued in the order the set iterates.
TwinPass(c) ==
    /\ twin # Off
    /\ twin[c].pc = "loop"
    /\ LoopCond(twin[c].to_visit, twin[c].snapshots, twin.max_pages)
    /\ \E front \in {Head(twin[c].to_visit)} :
       \E page \in {PageOf(twin.site, twin.root, front)} :
          IF front \in twin[c].seen \/ ~_is_allowed(twin.parser, front)
          THEN twin' = [twin EXCEPT ![c].to_visit = Tail(@)]
          ELSE IF page = None
          THEN twin' = [twin EXCEPT ![c].to_visit = Tail(@), ![c].seen = @ \cup {front}]
          ELSE IF _extract_internal_links(twin.root, page).raised
          THEN twin' = [twin EXCEPT ![c].pc = "raised",
                                    ![c].to_visit = Tail(@),
                                    ![c].seen = @ \cup {front},
                                    ![c].snapshots = Append(@, [url |-> front])]
          ELSE \E order \in Orders(_extract_internal_links(twin.root, page).links) :
                  twin' = [twin EXCEPT
                      ![c].to_visit = Enqueue(Tail(@), order, twin[c].seen \cup {front},
                                              twin.max_pages * 2),
                      ![c].seen = @ \cup {front},
                      ![c].snapshots = Append(@, [url |-> front])]
    /\ UNCHANGED <<crawl_vars, norm, scorer, builder, pipeline, generator, places, slug, race>>

\* The loop of crawl c ends: return snapshots.
TwinReturn(c) ==
    /\ twin # Off
    /\ twin[c].pc = "loop"
    /\ ~LoopCond(twin[c].to_visit, twin[c].snapshots, twin.max_pages)
    /\ twin' = [twin EXCEPT ![c].pc = "done"]
    /\ UNCHANGED <<crawl_vars, norm, scorer, builder, pipeline, generator, places, slug, race>>

TwinSpec ==
    TwinInit /\ [][\E c \in {"a", "b"} : TwinPass(c) \/ TwinReturn(c)]_vars

\* ------------------------------- concurrent lookups of a robots policy

\* Threads that call _get_robot_parser on one crawler at the same time.
RaceThreads == 2

\* The URLs the threads ask about: one per domain key.
RaceURLs == {<<"https", ":", "/", "/", "h", "/", "a">>, <<"http", ":", "/", "/", "h", "/", "a">>}

\* A parser together with the domain whose robots.txt it was pointed at
\* (parser.set_url).
ParserFor(domain, outcome) == [url |-> domain, policy |-> ReadRobots(outcome)]

\* The threads are about to call _get_robot_parser; the cache is empty or
\* holds the policy of one of the domains.
RaceInit ==
    /\ CrawlInit
    /\ max_pages = 0
    /\ norm = NormOff
    /\ scorer = Off
    /\ builder = Off
    /\ pipeline = Off
    /\ generator = Off
    /\ places = Off
    /\ slug = Off
    /\ twin = Off
    /\ \E urls \in [1..RaceThreads -> RaceURLs] :
       \E cached \in SUBSET {_domain_key(<<"http", ":", "/", "/", "h", "/", "a">>)} :
       \E outcome \in RobotsOutcomes :
          race = [cache |-> [d \in cached |-> ParserFor(d, outcome)],
                  initial |-> [d \in cached |-> ParserFor(d, outcome)],
                  reads |-> 0,
                  threads |-> [t \in 1..RaceThreads |->
                                  [pc |-> "check", domain |-> _domain_key(urls[t]),
                                   parser |-> None]]]

\* if domain in self._robots_cache: return self._robots_cache[domain]
RaceCheck(t) ==
    /\ race # Off
    /\ race.threads[t].pc = "check"
    /\ race' = IF race.threads[t].domain \in DOMAIN race.cache
               THEN [race EXCEPT !.threads[t].pc = "returned",
                                 !.threads[t].parser = race.cache[race.threads[t].domain]]
               ELSE [race EXCEPT !.threads[t].pc = "read"]
    /\ UNCHANGED <<crawl_vars, norm, scorer, builder, pipeline, generator, places, slug, twin>>

\* parser = RobotFileParser(); parser.set_url(robots_url); parser.read(),
\* whatever read() meets.
RaceRead(t) ==
    /\ race # Off
    /\ race.threads[t].pc = "read"
    /\ \E outcome \in RobotsOutcomes :
          race' = [race EXCEPT !.threads[t].pc = "store",
                               !.threads[t].parser = ParserFor(race.threads[t].domain, outcome),
                               !.reads = @ + 1]
    /\ UNCHANGED <<crawl_vars, norm, scorer, builder, pipeline, generator, places, slug, twin>>

\* self._robots_cache[domain] = parser; return parser
RaceStore(t) ==
    /\ race # Off
    /\ race.threads[t].pc = "store"
    /\ race' = [race EXCEPT !.threads[t].pc = "returned",
                            !.cache = Store(@, race.threads[t].domain, race.threads[t].parser)]
    /\ UNCHANGED <<crawl_vars, norm, scorer, builder, pipeline, generator, places, slug, twin>>

RaceSpec ==
    RaceInit /\ [][\E t \in 1..RaceThreads : RaceCheck(t) \/ RaceRead(t) \/ RaceStore(t)]_vars

\* ---------------------------------------------------------------- claims

\* The URLs of the snapshots in a list.
SnapshotURLs(list) == {list[k].url : k \in 1..Len(list)}

Elements(seq) == {seq[k] : k \in 1..Len(seq)}

\* Paths of sample URLs of a domain.
SamplePaths == {<<>>, <<"/">>, <<"/", "a">>, <<"/", "b">>}

\* C1: crawl never holds, and never returns, more than max_pages snapshots.
C1_AtMostMaxPages ==
    /\ Len(snapshots) <= max_pages
    /\ pc = "done" => Len(returned) <= max_pages

\* C1 witness: a crawl returned max_pages = 2 snapshots with links left in the frontier.
C1_Witness == pc = "done" /\ max_pages = 2 /\ Len(returned) = 2 /\ to_visit # <<>>

\* C2: every URL a page GET was issued for has the policy of its domain in
\* the robots cache and is allowed by it; and a crawl whose root that policy
\* disallows fetches nothing, collects and returns nothing, and does not raise.
C2_RobotsGatesFetch ==
    /\ \A u \in fetched :
          /\ _domain_key(u) \in DOMAIN robots_cache
          /\ can_fetch(robots_cache[_domain_key(u)], u)
    /\ (/\ normalized_root # None
        /\ pc # "idle"
        /\ _domain_key(normalized_root) \in DOMAIN robots_cache
        /\ ~can_fetch(robots_cache[_domain_key(normalized_root)], normalized_root))
       => fetched = {} /\ snapshots = <<>> /\ returned = <<>> /\ pc \in {"loop", "done"}

\* C2 witness: the crawl of a site whose robots.txt disallows everything is done.
C2_Witness ==
    /\ pc = "done"
    /\ normalized_root # None
    /\ _domain_key(normalized_root) \in DOMAIN robots_read
    /\ robots_read[_domain_key(normalized_root)] = [kind |-> "ok", rules |-> {<<"/">>}]
    /\ returned = <<>>
    /\ fetched = {}

\* C3: every URL in the frontier, in seen, in the snapshots and in the
\* returned list has the netloc of the normalized seed.
C3_SameHost ==
    normalized_root # None =>
        \A u \in Elements(to_visit) \cup seen \cup SnapshotURLs(snapshots) \cup SnapshotURLs(returned) :
            urlsplit(u).netloc = urlsplit(normalized_root).netloc

\* C3 witness: the page with links to host g and to http://h/a was processed
\* in a crawl of https://h: its one link of another scheme is in the frontier.
C3_Witness ==
    /\ urlsplit(normalized_root).scheme = <<"https">>
    /\ <<"http", ":", "/", "/", "h", "/", "a">> \in Elements(to_visit)

\* C4 (as claimed): a domain whose robots.txt fetch failed by network
\* error, timeout or 404 has every URL allowed.
C4_FailedRobotsAllowsAll ==
    \A d \in DOMAIN robots_read :
        robots_read[d].kind \in {"network_error", "timeout", "http_404"}
        => \A p \in SamplePaths : _is_allowed(robots_cache[d], d \o p)

\* C5 (as claimed): normalizing a normalized URL changes nothing.
C5_NormalizeIdempotent == norm.pc = "again" => norm.again = norm.out

\* C6 (as claimed): two valid URLs that differ only in query, fragment or
\* trailing slash normalize to the same text, and a root normalizes to a
\* text ending in exactly one "/".
C6_NormalizeEquivalent ==
    norm.pc = "other" =>
        /\ norm.other_out = norm.out
        /\ StripSlash(urlsplit(norm.url).path) = <<>>
           => /\ norm.out[Len(norm.out)] = "/"
              /\ norm.out[Len(norm.out) - 1] # "/"

\* C7: a crawl call with an invalid seed (urlsplit raises, scheme not
\* http(s), or no host) returns [] in that step and leaves the robots cache
\* as it was, with no robots lookup and no page fetch.
C7_InvalidSeedNoEffect ==
    [][(crawls' = crawls + 1 /\ ~ValidURL(url'))
       => /\ pc' = "done"
          /\ returned' = <<>>
          /\ robots_cache' = robots_cache
          /\ robots_read' = robots_read
          /\ fetched' = {}
          /\ to_visit' = <<>>]_vars

\* C7 witness: a crawler whose cache holds a domain returned from a crawl of an invalid seed.
C7_Witness ==
    /\ pc = "done"
    /\ crawls = 2
    /\ ~ValidURL(url)
    /\ DOMAIN robots_cache # {}
    /\ returned = <<>>

\* C8 (as claimed): an attempt answered with status >= 400 ends the get: it
\* was the first attempt and no retry follows.
C8_HttpErrorNotRetried == response = "HttpError" => attempts = 1 /\ pc # "fetch"

\* C8 (amended): HttpError is retried like a transport error: a get is
\* retried only after one of the two, and it fails only after MaxAttempts
\* failed attempts.
C8_HttpErrorRetried ==
    /\ (pc = "fetch" /\ attempts > 0) => response \in {"HttpError", "RequestException"}
    /\ (pc = "fetched" /\ html = None) => attempts = MaxAttempts

\* C8 witness: a get failed with HttpError on its third attempt.
C8_Witness == pc = "fetched" /\ html = None /\ response = "HttpError" /\ attempts = 3

\* C9: a get makes at most MaxAttempts attempts; when the last one failed
\* _fetch_html returned None and the crawl did not raise; after an attempt
\* that succeeded no further attempt is made.
C9_AtMostThreeAttempts ==
    /\ attempts <= MaxAttempts
    /\ pc = "fetch" => attempts < MaxAttempts /\ response # "ok"
    /\ (response \in {"HttpError", "RequestException"} /\ pc # "fetch")
       => html = None /\ pc \in {"fetched", "loop", "done"}
    /\ response = "ok" => pc = "fetched" /\ html # None

\* C9 witness: a get succeeded on its third attempt.
C9_Witness == pc = "fetched" /\ response = "ok" /\ attempts = 3

\* C10: the step after a failed fetch returns to the loop with the
\* snapshots and the frontier as they were, and no URL whose fetch failed
\* has a snapshot.
C10_FailedFetchSkipped ==
    /\ [][(pc = "fetched" /\ html = None)
          => (pc' = "loop" /\ snapshots' = snapshots /\ to_visit' = to_visit)]_vars
    /\ [](SnapshotURLs(snapshots) \cap failed = {})

\* C10 witness: after a fetch failed in this crawl, a later URL was fetched and got a snapshot.
C10_Witness ==
    /\ failed # {}
    /\ pc = "loop"
    /\ Len(snapshots) = 2
    /\ snapshots[2].url = target

RECURSIVE ScoredOf(_, _)
\* The businesses, in order, at whose place the outcomes say "scored".
ScoredOf(businesses, outcomes) ==
    IF Len(outcomes) = 0 \/ Len(businesses) = 0 THEN <<>>
    ELSE (IF Head(outcomes) = "scored" THEN <<Head(businesses)>> ELSE <<>>)
             \o ScoredOf(Tail(businesses), Tail(outcomes))

\* C11: a failure of score never ends _analyze_businesses (only an error of
\* the crawl does); the analyses are those of the businesses scored so
\* far, in discovery order, with none for a business whose scoring failed;
\* and the run returns only after every business had its pass.
C11_ScoringFailureSkipped ==
    /\ pipeline.pc = "raised"
          => pipeline.outcomes[Len(pipeline.outcomes)] = "crawl_raised"
    /\ pipeline.pc \in {"loop", "returned"}
          => /\ pipeline.index = Len(pipeline.outcomes) + 1
             /\ [k \in 1..Len(pipeline.analyses) |-> pipeline.analyses[k].business]
                    = ScoredOf(pipeline.businesses, pipeline.outcomes)
    /\ pipeline.pc = "returned" => Len(pipeline.outcomes) = Len(pipeline.businesses)

\* C11 witness: of three businesses the scoring of the second failed and
\* the run returned the analyses of the first and the third.
C11_Witness ==
    /\ pipeline.pc = "returned"
    /\ pipeline.outcomes = <<"scored", "scoring_failed", "scored">>
    /\ Len(pipeline.analyses) = 2
    /\ pipeline.analyses[1].business = pipeline.businesses[1]
    /\ pipeline.analyses[2].business = pipeline.businesses[3]

\* The sum of the four subscores of an assessment, in points.
SubscoreSum(assessment) ==
    assessment.subscores.technical + assessment.subscores.seo
        + assessment.subscores.content + assessment.subscores.trust

\* The maximally-positive input: https website, rating 4.8 with 200 ratings,
\* every signal shown, two languages, 500 words a page, 5 pages.
MaxPositive(business, features) ==
    /\ StartsWithHttps(business.website)
    /\ business.rating = 48
    /\ business.user_ratings_total = 200
    /\ \A sig \in Signals : features[sig]
    /\ Len(features.languages) >= 2
    /\ features.avg_word_count = Whole(500)
    /\ features.total_pages = 5

\* The low-maturity vector of the tests: no website, no page, no language,
\* no word, no signal.
LowMaturity(features) ==
    /\ features.website = None
    /\ features.total_pages = 0
    /\ features.languages = <<>>
    /\ features.avg_word_count = Whole(0)
    /\ \A sig \in Signals : ~features[sig]

\* C12 as stated: for the maximally-positive input each of the four
\* subscores is 100 and overall_score is 100.0.
C12_MaxInputAllHundred ==
    (scorer.pc = "returned" /\ MaxPositive(scorer.business, scorer.features))
    => /\ scorer.assessment.subscores.technical = 100
       /\ scorer.assessment.subscores.seo = 100
       /\ scorer.assessment.subscores.content = 100
       /\ scorer.assessment.subscores.trust = 100
       /\ scorer.assessment.overall_score = 10000

\* C12 amended: for the maximally-positive input technical and seo are 100,
\* content is 80 (35 + 20 + 15 + 10), trust is 90 (45 + 15 + 10 + 10 + 10)
\* and overall_score is 92.5.
C12_MaxInputScores ==
    (scorer.pc = "returned" /\ MaxPositive(scorer.business, scorer.features))
    => /\ scorer.assessment.subscores.technical = 100
       /\ scorer.assessment.subscores.seo = 100
       /\ scorer.assessment.subscores.content = 80
       /\ scorer.assessment.subscores.trust = 90
       /\ scorer.assessment.overall_score = 9250

\* C12 witness: score returned an assessment of the maximally-positive input.
C12_Witness == scorer.pc = "returned" /\ MaxPositive(scorer.business, scorer.features)

\* C13: the overall_score of a returned assessment is the mean of its four
\* subscores rounded to two decimals: a whole number of hundredths no
\* further than half a hundredth from the mean.
C13_OverallIsRoundedMean ==
    scorer.pc = "returned"
    => /\ 4 * scorer.assessment.overall_score - 100 * SubscoreSum(scorer.assessment) \in -2..2
       /\ scorer.assessment.subscores
              = _calculate_subscores(scorer.business, scorer.features)

\* C13 witness: an assessment whose mean is not a whole number of points.
C13_Witness ==
    /\ scorer.pc = "returned"
    /\ SubscoreSum(scorer.assessment) % 4 # 0
    /\ scorer.assessment.overall_score % 100 = 25

\* C14: every subscore of a returned assessment lies in 0..100 points and
\* its overall score in 0..100.00, whatever the rating, the rating count,
\* the page count and the word count.
C14_ScoresInRange ==
    scorer.pc = "returned"
    => /\ scorer.assessment.subscores.technical \in 0..100
       /\ scorer.assessment.subscores.seo \in 0..100
       /\ scorer.assessment.subscores.content \in 0..100
       /\ scorer.assessment.subscores.trust \in 0..100
       /\ scorer.assessment.overall_score \in 0..10000

\* C14 witness: a business with no rating and no rating count was scored,
\* and a subscore reached 100.
C14_Witness ==
    /\ scorer.pc = "returned"
    /\ scorer.business.rating = NoNumber
    /\ scorer.business.user_ratings_total = NoNumber
    /\ scorer.assessment.subscores.technical = 100
    /\ scorer.assessment.subscores.seo = 100

\* C15 as stated: for the low-maturity vector overall_score is below 40 and
\* the technical, seo and content subscores are each below 30.
C15_LowMaturityScoresLow ==
    (scorer.pc = "returned" /\ LowMaturity(scorer.features))
    => /\ scorer.assessment.overall_score < 4000
       /\ scorer.assessment.subscores.technical < 30
       /\ scorer.assessment.subscores.seo < 30
       /\ scorer.assessment.subscores.content < 30

\* The pages of a list whose language gives the label.
PagesLabelled(pages, label) ==
    {k \in 1..Len(pages) :
        Truthy(pages[k].language) /\ LanguageLabel(pages[k].language) = label}

\* The first page of a list whose language gives the label.
FirstLabelled(pages, label) ==
    CHOOSE k \in PagesLabelled(pages, label) : \A m \in PagesLabelled(pages, label) : k <= m

\* C16: each of the eight signals of the vector built is true exactly when
\* at least one page of the list shows it, and total_pages is the number of
\* pages; for the empty list the vector has total_pages 0, no signal, an
\* average word count of 0 and no language.
C16_SignalsAreAnyPage ==
    builder.pc = "built"
    => /\ \A sig \in Signals :
             builder.vector[sig]
                 <=> \E k \in 1..Len(builder.pages) : sig \in PageSignals(builder.pages[k])
       /\ builder.vector.total_pages = Len(builder.pages)
       /\ builder.pages = <<>>
             => /\ builder.vector.total_pages = 0
                /\ \A sig \in Signals : ~builder.vector[sig]
                /\ builder.vector.avg_word_count.num = 0
                /\ builder.vector.languages = <<>>

\* C16 witness: a vector was built from three pages of which only the first
\* shows a contact call to action and none shows a phone number.
C16_Witness ==
    /\ builder.pc = "built"
    /\ Len(builder.pages) = 3
    /\ "has_contact_cta" \in PageSignals(builder.pages[1])
    /\ "has_contact_cta" \notin PageSignals(builder.pages[2])
    /\ "has_contact_cta" \notin PageSignals(builder.pages[3])
    /\ builder.vector.has_contact_cta
    /\ ~builder.vector.has_phone_number

\* C17: the languages of the vector built are the labels of the pages that
\* have a language, each once, a label on more pages before a label on
\* fewer, and of two labels on as many pages the one seen first in page
\* order first.
C17_LanguagesByFrequency ==
    builder.pc = "built"
    => /\ \A i, j \in 1..Len(builder.vector.languages) :
             i # j => builder.vector.languages[i] # builder.vector.languages[j]
       /\ {builder.vector.languages[i] : i \in 1..Len(builder.vector.languages)}
              = {LanguageLabel(builder.pages[k].language) :
                    k \in {m \in 1..Len(builder.pages) : Truthy(builder.pages[m].language)}}
       /\ \A i, j \in 1..Len(builder.vector.languages) :
             i < j =>
                \/ Cardinality(PagesLabelled(builder.pages, builder.vector.languages[i]))
                       > Cardinality(PagesLabelled(builder.pages, builder.vector.languages[j]))
                \/ /\ Cardinality(PagesLabelled(builder.pages, builder.vector.languages[i]))
                          = Cardinality(PagesLabelled(builder.pages, builder.vector.languages[j]))
                   /\ FirstLabelled(builder.pages, builder.vector.languages[i])
                          < FirstLabelled(builder.pages, builder.vector.languages[j])

\* C17 witness: of three pages the first has no language and the other two
\* have two labels, once each; the label seen first comes first.
C17_Witness ==
    /\ builder.pc = "built"
    /\ Len(builder.pages) = 3
    /\ builder.pages[1].language = None
    /\ builder.pages[2].language = <<"fr">>
    /\ builder.pages[3].language = <<"ar-sa">>
    /\ builder.vector.languages = << <<"fr">>, <<"Arabic">> >>

\* C18 as stated: whatever text the LLM returned, _invoke_llm_json returns
\* a dict, the empty one when neither the text nor its cut from the first
\* "{" to the last "}" parses, and the call that asked for it does not fail.
C18_AlwaysDict ==
    (generator.pc \in {"invoked", "returned", "raised"} /\ generator.reply # LLMError)
    => /\ generator.data.kind = "dict"
       /\ generator.pc # "raised"
       /\ (json_loads(generator.reply).raised
              /\ (_extract_json(generator.reply) = None
                     \/ json_loads(_extract_json(generator.reply)).raised))
          => generator.data = JsonValue("dict", FALSE, NoMembers)

\* C19 as stated: a details request that fails for one place, with an API
\* error or with a transport error on every attempt, is skipped: discover
\* does not raise because of it and goes on to return its list.
C19_DetailsFailureSkipped ==
    (places.pc # "off" /\ places.error.call = "place_details"
        /\ places.error.kind \in {"ApiError", "TransportError"})
    => places.pc # "discover_raised"

\* C20 as stated: _discover_businesses returns at most max_businesses
\* businesses, whatever the number of business types.
C20_AtMostMaxBusinesses ==
    places.pc = "returned" => Len(places.discovered) <= places.max_businesses

\* The ASCII lower-case letters and digits of the model's strings.
AsciiLowerAlnum == {"t", "a", "1", "b", "u", "s", "i", "n", "e"}

\* C21 as stated: the slug _slugify returns is made only of ASCII lower-case
\* letters, digits and single hyphens, with no hyphen at either end, and is
\* "business" when the input has no ASCII letter or digit.
C21_SlugIsAscii ==
    slug.pc = "returned"
    => /\ \A k \in 1..Len(slug.result) : slug.result[k] \in AsciiLowerAlnum \cup {"-"}
       /\ \A k \in 1..(Len(slug.result) - 1) :
             ~(slug.result[k] = "-" /\ slug.result[k + 1] = "-")
       /\ slug.result # <<>>
       /\ slug.result[1] # "-"
       /\ slug.result[Len(slug.result)] # "-"
       /\ (\A k \in 1..Len(slug.value) : slug.value[k] \notin {"T", "a", "1"})
             => slug.result = <<"b", "u", "s", "i", "n", "e", "s", "s">>

\* C22 as stated: the URL a pass of the loop pops from the frontier is in
\* seen when the pass is over, also when robots disallows it.
C22_PoppedIsSeen == [][(pc = "loop" /\ pc' # "done") => target' \in seen']_vars

\* Two URLs of one page: same scheme and host, and the same path once the
\* empty path is read as "/" (the request sent for them is the same).
SamePage(u, v) ==
    /\ urlsplit(u).scheme = urlsplit(v).scheme
    /\ urlsplit(u).netloc = urlsplit(v).netloc
    /\ OrSlash(urlsplit(u).path) = OrSlash(urlsplit(v).path)

\* C23 as stated: within one crawl no URL is fetched twice and no two
\* snapshots, collected or returned, are of the same URL.
C23_NoURLTwice ==
    /\ \A u, v \in fetched : u # v => ~SamePage(u, v)
    /\ \A i, j \in 1..Len(snapshots) :
          i # j => ~SamePage(snapshots[i].url, snapshots[j].url)
    /\ \A i, j \in 1..Len(returned) :
          i # j => ~SamePage(returned[i].url, returned[j].url)

\* C24 as stated: in every state of a crawl the frontier holds at most
\* 2 * max_pages URLs.
C24_FrontierAtMostTwice == Len(to_visit) <= 2 * max_pages

\* C24 amended: the frontier holds at most 2 * max_pages URLs when max_pages
\* is 1 or more; with max_pages = 0 it holds the seed alone, which the loop
\* never pops.
C24_FrontierCapped ==
    /\ max_pages >= 1 => Len(to_visit) <= 2 * max_pages
    /\ max_pages = 0 => /\ Len(to_visit) <= 1
                        /\ to_visit # <<>> => to_visit = <<normalized_root>>
                        /\ snapshots = <<>> /\ fetched = {}

\* C24 witness: with max_pages = 1 the home page was processed and of its
\* links only two found room in the frontier; the crawl returned.
C24_Witness ==
    /\ pc = "done"
    /\ max_pages = 1
    /\ Len(returned) = 1
    /\ Len(to_visit) = 2
    /\ <<"https", ":", "/", "/", "h", "/", "a">> \notin Elements(to_visit)
    /\ <<"https", ":", "/", "/", "h", "/", "b">> \in Elements(to_visit)
    /\ <<"https", ":", "/", "/", "h", "/", "c">> \in Elements(to_visit)

\* C25: in every step of a crawler used by one caller, an entry of the
\* robots cache stays as it is and so does the record of the one fetch of
\* its robots.txt; every entry is the parser that fetch gave, under a key
\* of scheme and host alone; and a URL goes to the fetch only if the entry
\* of its domain allows it.
C25_RobotsFetchedOnce ==
    [][/\ \A d \in DOMAIN robots_cache :
             d \in DOMAIN robots_cache' /\ robots_cache'[d] = robots_cache[d]
       /\ \A d \in DOMAIN robots_read :
             d \in DOMAIN robots_read' /\ robots_read'[d] = robots_read[d]
       /\ DOMAIN robots_read' = DOMAIN robots_cache'
       /\ \A d \in DOMAIN robots_cache' :
             /\ robots_cache'[d] = ReadRobots(robots_read'[d])
             /\ d = urlunsplit(urlsplit(d).scheme, urlsplit(d).netloc, <<>>, <<>>, <<>>)
       /\ (pc = "loop" /\ pc' = "fetch")
             => can_fetch(robots_cache'[_domain_key(target')], target')]_vars

\* C25 witness: the second crawl of a crawler whose cache holds two domains
\* has looked up its root, and nothing else, and found it allowed.
C25_Witness ==
    /\ crawls = 2
    /\ pc = "fetch"
    /\ snapshots = <<>>
    /\ seen = {target}
    /\ Cardinality(DOMAIN robots_cache) = 2

\* C26 as stated: two crawls of the same seed with the same max_pages, the
\* same robots policy and the same answer for every URL return the same
\* sequence of snapshots.
C26_SameSnapshotOrder ==
    (twin # Off /\ twin.a.pc = "done" /\ twin.b.pc = "done")
    => twin.a.snapshots = twin.b.snapshots

\* C27 as stated: a crawl that has left its loop has returned, and it did
\* so with max_pages snapshots collected or with an empty frontier.
C27_EndsByCapOrEmptyFrontier ==
    (pc \notin {"idle", "loop", "fetch", "fetched"})
    => (pc = "done" /\ (Len(snapshots) >= max_pages \/ to_visit = <<>>))

\* C28: when the concurrent lookups have all returned, the cache holds for
\* every domain looked up one entry, a parser pointed at that domain that
\* one of the lookups of that domain read (or the entry cached before);
\* every lookup was answered by a parser of its own domain; the entries
\* cached before are the same; and robots.txt was read at most once per
\* lookup.
C28_RaceIsBenign ==
    (race # Off /\ \A t \in 1..RaceThreads : race.threads[t].pc = "returned")
    => /\ DOMAIN race.cache
            = DOMAIN race.initial \cup {race.threads[t].domain : t \in 1..RaceThreads}
       /\ \A d \in DOMAIN race.initial : race.cache[d] = race.initial[d]
       /\ \A d \in DOMAIN race.cache : race.cache[d].url = d
       /\ \A t \in 1..RaceThreads :
             /\ race.threads[t].parser.url = race.threads[t].domain
             /\ \E s \in 1..RaceThreads :
                   /\ race.threads[s].domain = race.threads[t].domain
                   /\ race.cache[race.threads[t].domain] = race.threads[s].parser
       /\ race.reads <= RaceThreads

\* Two lookups of one uncached domain both read robots.txt, met different
\* answers, and have returned: one of them holds a parser that is not the
\* cached one.
C28_Witness ==
    /\ race # Off
    /\ \A t \in 1..RaceThreads : race.threads[t].pc = "returned"
    /\ race.threads[1].domain = race.threads[2].domain
    /\ race.threads[1].domain \notin DOMAIN race.initial
    /\ DOMAIN race.initial # {}
    /\ race.reads >= 2
    /\ race.threads[1].parser # race.threads[2].parser

\* C29: in every state of a crawl the frontier holds no URL twice and no
\* URL that is in seen, so the URL at its front, the next to be popped, is
\* not in seen.
C29_FrontierFresh ==
    /\ \A i, j \in 1..Len(to_visit) : i # j => to_visit[i] # to_visit[j]
    /\ \A i \in 1..Len(to_visit) : to_visit[i] \notin seen

\* Two pages were fetched and their links enqueued, and the frontier still
\* holds URLs: the second page was processed with URLs in seen and URLs
\* waiting.
C29_Witness ==
    /\ pc = "loop"
    /\ Len(snapshots) = 2
    /\ Cardinality(seen) >= 2
    /\ Len(to_visit) >= 2

====
